---- MODULE Spec2Model ----
(***************************************************************************)
(* Model of transcript_integrator/database_tools.py: the member-name       *)
(* resolver (DatabaseTools._ensure_cache, _fuzzy_match_member), the        *)
(* mutation tools of DatabaseTools and the router ToolExecutor.execute /   *)
(* _call_tool.  Strings are TLA+ strings; a character is a string of       *)
(* length one.  Every tool invocation is a process whose steps are the     *)
(* code between two awaits that suspend on the database.                   *)
(***************************************************************************)
EXTENDS Integers, Sequences, FiniteSets, TLC

(***************************************************************************)
(* Bounds of the model.                                                    *)
(***************************************************************************)
\* number of tool invocations started in one behaviour
MaxCalls == 2
\* number of rows of the person table drawn in the resolver specification
MaxPersons == 2

(***************************************************************************)
(* Python str helpers.                                                     *)
(***************************************************************************)
\* the ASCII characters the model's strings use, in code point order
Ascii == "\t %(),-.0123456789;ABCDEFGHIJKLMNOPQRSTUVWXYZ\\_abcdefghijklmnopqrstuvwxyz"

Char(s, i) == SubSeq(s, i, i)

Ord(c) == CHOOSE i \in 1..Len(Ascii) : Char(Ascii, i) = c

IsUpper(c) == \E i \in 1..26 : Char("ABCDEFGHIJKLMNOPQRSTUVWXYZ", i) = c

\* str.lower() on one character
LowerChar(c) ==
    IF IsUpper(c)
    THEN Char("abcdefghijklmnopqrstuvwxyz",
              CHOOSE i \in 1..26 : Char("ABCDEFGHIJKLMNOPQRSTUVWXYZ", i) = c)
    ELSE c

\* str.lower()
RECURSIVE Lower(_)
Lower(s) == IF s = "" THEN "" ELSE LowerChar(Head(s)) \o Lower(Tail(s))

\* the characters str.strip() and str.split() treat as whitespace
Whitespace == {" ", "\t"}

RECURSIVE LStrip(_, _)
LStrip(s, chars) ==
    IF s # "" /\ Head(s) \in chars THEN LStrip(Tail(s), chars) ELSE s

RECURSIVE RStrip(_, _)
RStrip(s, chars) ==
    IF s # "" /\ Char(s, Len(s)) \in chars
    THEN RStrip(SubSeq(s, 1, Len(s) - 1), chars)
    ELSE s

\* str.strip()
Strip(s) == RStrip(LStrip(s, Whitespace), Whitespace)

\* c in s
HasChar(s, c) == \E i \in 1..Len(s) : Char(s, i) = c

\* s.split(c, 1)[0]: the part of s before the first occurrence of c
SplitFirst(s, c) ==
    IF HasChar(s, c)
    THEN SubSeq(s, 1, (CHOOSE i \in 1..Len(s) :
                          /\ Char(s, i) = c
                          /\ \A j \in 1..(i - 1) : Char(s, j) # c) - 1)
    ELSE s

\* t up to its first whitespace character
UpToWhitespace(t) ==
    IF \E i \in 1..Len(t) : Char(t, i) \in Whitespace
    THEN SubSeq(t, 1, (CHOOSE i \in 1..Len(t) :
                          /\ Char(t, i) \in Whitespace
                          /\ \A j \in 1..(i - 1) : Char(t, j) \notin Whitespace) - 1)
    ELSE t

\* s.split()[0], for an s that holds a non-whitespace character
FirstWord(s) == UpToWhitespace(LStrip(s, Whitespace))

\* a < b for str (code point order)
RECURSIVE StrLess(_, _)
StrLess(a, b) ==
    IF b = "" THEN FALSE
    ELSE IF a = "" THEN TRUE
    ELSE IF Head(a) = Head(b) THEN StrLess(Tail(a), Tail(b))
    ELSE Ord(Head(a)) < Ord(Head(b))

(***************************************************************************)
(* difflib.SequenceMatcher and difflib.get_close_matches, for sequences    *)
(* shorter than 200 elements (no autojunk) and no junk function.           *)
(* Positions are 0-based offsets, ranges are half open, as in difflib.     *)
(***************************************************************************)
At(s, i) == SubSeq(s, i + 1, i + 1)

\* length of the common run of a[i:ahi] and b[j:bhi] that starts at (i, j)
RECURSIVE RunLen(_, _, _, _, _, _)
RunLen(a, b, i, j, ahi, bhi) ==
    IF i < ahi /\ j < bhi /\ At(a, i) = At(b, j)
    THEN 1 + RunLen(a, b, i + 1, j + 1, ahi, bhi)
    ELSE 0

\* the length of the common run that starts at each pair of positions
RunLens(a, b, alo, ahi, blo, bhi) ==
    [p \in (alo..(ahi - 1)) \X (blo..(bhi - 1)) |->
        RunLen(a, b, p[1], p[2], ahi, bhi)]

\* the greatest value of S, a non-empty set of integers, and the least
Greatest(S) == CHOOSE x \in S : \A y \in S : y <= x
Least(S) == CHOOSE x \in S : \A y \in S : x <= y

\* the length of the longest run
Longest(len) ==
    IF DOMAIN len = {} THEN 0 ELSE Greatest({len[p] : p \in DOMAIN len})

\* the least start in a of the runs of length best
EarliestA(len, best) == Least({p[1] : p \in {q \in DOMAIN len : len[q] = best}})

\* the least start in b of the runs of length best that start at i in a
EarliestB(len, best, i) ==
    Least({p[2] : p \in {q \in DOMAIN len : len[q] = best /\ q[1] = i}})

BlockAt(len, best, i) == <<i, EarliestB(len, best, i), best>>

LongestBlock(len, best, alo, blo) ==
    IF best = 0 THEN <<alo, blo, 0>> ELSE BlockAt(len, best, EarliestA(len, best))

\* SequenceMatcher.find_longest_match: the longest block, among those the one
\* that starts earliest in a, among those the one that starts earliest in b
find_longest_match(a, b, alo, ahi, blo, bhi) ==
    LongestBlock(RunLens(a, b, alo, ahi, blo, bhi),
                 Longest(RunLens(a, b, alo, ahi, blo, bhi)), alo, blo)

\* the sum of the sizes of SequenceMatcher.get_matching_blocks: the block m
\* and the blocks matched to its left and to its right
RECURSIVE Matches(_, _, _, _, _, _)
RECURSIVE MatchesAround(_, _, _, _, _, _, _)
MatchesAround(a, b, alo, ahi, blo, bhi, m) ==
    IF m[3] = 0 THEN 0
    ELSE m[3] + (IF alo < m[1] /\ blo < m[2]
                 THEN Matches(a, b, alo, m[1], blo, m[2]) ELSE 0)
              + (IF m[1] + m[3] < ahi /\ m[2] + m[3] < bhi
                 THEN Matches(a, b, m[1] + m[3], ahi, m[2] + m[3], bhi) ELSE 0)

Matches(a, b, alo, ahi, blo, bhi) ==
    MatchesAround(a, b, alo, ahi, blo, bhi,
                  find_longest_match(a, b, alo, ahi, blo, bhi))

\* SequenceMatcher.ratio as the fraction <<numerator, denominator>>
ratio(a, b) ==
    IF Len(a) + Len(b) = 0 THEN <<1, 1>>
    ELSE <<2 * Matches(a, b, 0, Len(a), 0, Len(b)), Len(a) + Len(b)>>

\* the cutoff 0.6 of _fuzzy_match_member, as the fraction CutoffNum / CutoffDen
CutoffNum == 3
CutoffDen == 5

\* r >= cutoff
ClearsCutoff(r) == r[1] * CutoffDen >= CutoffNum * r[2]

\* (score1, x1) < (score2, x2) as Python tuples
PairLess(r1, x1, r2, x2) ==
    \/ r1[1] * r2[2] < r2[1] * r1[2]
    \/ r1[1] * r2[2] = r2[1] * r1[2] /\ StrLess(x1, x2)

\* the ratio of each possibility to the word
Scores(word, possibilities) == [x \in possibilities |-> ratio(x, word)]

\* the possibilities that score at least the cutoff
Good(score) == {x \in DOMAIN score : ClearsCutoff(score[x])}

\* heapq.nlargest(1, ...) over the pairs (score, x)
Largest(score, good) ==
    {x \in good : \A y \in good : y = x \/ PairLess(score[y], y, score[x], x)}

BestOf(score) == Largest(score, Good(score))

\* difflib.get_close_matches(word, possibilities, n=1, cutoff=0.6): the set
\* holding the best possibility, or the empty set.  quick_ratio and
\* real_quick_ratio are upper bounds of ratio and filter nothing more.
get_close_matches(word, possibilities) == BestOf(Scores(word, possibilities))

(***************************************************************************)
(* The member name index: DatabaseTools._ensure_cache and                  *)
(* DatabaseTools._fuzzy_match_member.  A member dict is a record; None is  *)
(* the record NoMember, whose id no row has.                               *)
(***************************************************************************)
NoMember == [id |-> 0, name |-> "", discord_id |-> 0]

\* the member dict _ensure_cache builds from one row of the person table
member_dict(row) == [id |-> row.id, name |-> row.name, discord_id |-> row.discord_id]

\* dict.setdefault(key, []).append(m) on the first-name index
IndexAppend(index, key, m) ==
    [k \in DOMAIN index \cup {key} |->
        IF k = key
        THEN (IF key \in DOMAIN index THEN Append(index[key], m) ELSE <<m>>)
        ELSE index[k]]

\* cache[key] = m
CachePut(cache, key, m) ==
    [k \in DOMAIN cache \cup {key} |-> IF k = key THEN m ELSE cache[k]]

\* the body of the for loop of _ensure_cache for one row, on the state
\* st = [cache, index, err]; err is the IndexError of name.split()[0] for a
\* name that holds whitespace only
LoadRowNoSkip(st, row) ==
    IF Strip(row.name) = ""
    THEN [st EXCEPT !.cache = CachePut(st.cache, Lower(row.name), member_dict(row)),
                    !.err = TRUE]
    ELSE [st EXCEPT !.cache = CachePut(st.cache, Lower(row.name), member_dict(row)),
                    !.index = IndexAppend(st.index, Lower(FirstWord(row.name)),
                                          member_dict(row))]

LoadRow(st, row) ==
    IF st.err \/ row.name = "" THEN st ELSE LoadRowNoSkip(st, row)

\* the for loop of _ensure_cache over the rows fetched, in table order
RECURSIVE LoadRows(_, _)
LoadRows(st, rows) ==
    IF rows = <<>> THEN st ELSE LoadRows(LoadRow(st, Head(rows)), Tail(rows))

\* the characters _fuzzy_match_member strips from the end of a name
TrailingPunct == {",", ";", ".", "-"}

\* a cleaning that keeps the parenthetical commentary
CleanKeyKeepsComment(raw) == Lower(Strip(RStrip(Strip(raw), TrailingPunct)))

\* raw.split("(", 1)[0].strip(), .rstrip(",;.-").strip(), .lower()
CleanKey(raw) ==
    Lower(Strip(RStrip(Strip(SplitFirst(raw, "(")), TrailingPunct)))

\* index.get(key, [])
IndexGet(index, key) == IF key \in DOMAIN index THEN index[key] ELSE <<>>

\* step 3 of _fuzzy_match_member: the close match, if there is one
match_close(close, cache) ==
    IF close # {}
    THEN [step |-> "fuzzy", member |-> cache[CHOOSE x \in close : TRUE]]
    ELSE [step |-> "none", member |-> NoMember]

\* steps 1 to 3 of _fuzzy_match_member on the stripped name raw, its cleaned
\* key and the first-name list of the key
match_cleaned(raw, key, first, cache) ==
    IF raw = "" THEN [step |-> "empty", member |-> NoMember]
    ELSE IF key \in DOMAIN cache THEN [step |-> "exact", member |-> cache[key]]
    ELSE IF ~HasChar(key, " ") /\ Len(first) = 1
    THEN [step |-> "first", member |-> first[1]]
    ELSE match_close(get_close_matches(key, DOMAIN cache), cache)

match_key(raw, key, cache, index) ==
    match_cleaned(raw, key, IndexGet(index, key), cache)

\* _fuzzy_match_member: the member returned (NoMember for None) and the step
\* that decides it: "empty", "exact", "first", "fuzzy" or "none"
match_member(name, cache, index) ==
    match_key(Strip(name), CleanKey(Strip(name)), cache, index)

\* DatabaseTools._fuzzy_match_member
fuzzy_match_member(name, cache, index) == match_member(name, cache, index).member

(***************************************************************************)
(* What the code asks of Python and of the SQL store: int(), ILIKE.        *)
(***************************************************************************)
IsDigit(c) == \E i \in 1..10 : Char("0123456789", i) = c

DigitVal(c) == (CHOOSE i \in 1..10 : Char("0123456789", i) = c) - 1

\* digits, with single underscores between digits
ValidDigits(s) ==
    /\ s # ""
    /\ IsDigit(Head(s))
    /\ IsDigit(Char(s, Len(s)))
    /\ \A i \in 1..Len(s) : IsDigit(Char(s, i)) \/ Char(s, i) = "_"
    /\ \A i \in 1..(Len(s) - 1) : ~(Char(s, i) = "_" /\ Char(s, i + 1) = "_")

RECURSIVE DigitsVal(_, _)
DigitsVal(s, acc) ==
    IF s = "" THEN acc
    ELSE IF Head(s) = "_" THEN DigitsVal(Tail(s), acc)
    ELSE DigitsVal(Tail(s), 10 * acc + DigitVal(Head(s)))

\* the digits of a stripped numeral and its sign
Unsigned(t) == IF t # "" /\ Head(t) \in {"+", "-"} THEN Tail(t) ELSE t
Sign(t) == IF t # "" /\ Head(t) = "-" THEN -1 ELSE 1

\* int(s) for a str s: <<n>>, or <<>> for ValueError
int(s) ==
    IF ValidDigits(Unsigned(Strip(s)))
    THEN <<Sign(Strip(s)) * DigitsVal(Unsigned(Strip(s)), 0)>>
    ELSE <<>>

\* The store's LIKE (MatchText of like_match.c): % is any run of
\* characters, _ any one character, a backslash takes the next pattern
\* character literally.  The outcome is "true", "false", "abort" (no match,
\* and none at a later position of the text either) or "error" (the pattern
\* ends in a lone backslash where a character of the text is to be matched).
LikeEscapeError == "LIKE pattern must not end with escape character"

\* the pattern without its leading % characters
RECURSIVE SkipPercent(_)
SkipPercent(pat) ==
    IF pat # "" /\ Head(pat) = "%" THEN SkipPercent(Tail(pat)) ELSE pat

\* the pattern character a position of the text must start with
FirstPat(pat) == IF Head(pat) = "\\" THEN Char(pat, 2) ELSE Head(pat)

RECURSIVE MatchText(_, _)
RECURSIVE MatchAfterPercent(_, _)
RECURSIVE MatchScan(_, _)
RECURSIVE MatchScanNext(_, _, _)
MatchText(text, pat) ==
    IF text = "" \/ pat = ""
    THEN (IF text # "" THEN "false"
          ELSE IF SkipPercent(pat) = "" THEN "true" ELSE "abort")
    ELSE IF Head(pat) = "\\"
         THEN (IF Len(pat) < 2 THEN "error"
               ELSE IF Char(pat, 2) # Head(text) THEN "false"
               ELSE MatchText(Tail(text), SubSeq(pat, 3, Len(pat))))
    ELSE IF Head(pat) = "%" THEN MatchAfterPercent(text, Tail(pat))
    ELSE IF Head(pat) = "_" THEN MatchText(Tail(text), Tail(pat))
    ELSE IF Head(pat) # Head(text) THEN "false"
    ELSE MatchText(Tail(text), Tail(pat))

\* after a %: the % and _ that follow are skipped, then the text is scanned
\* for a position where the rest of the pattern matches
MatchAfterPercent(text, pat) ==
    IF pat = "" THEN "true"
    ELSE IF Head(pat) = "%" THEN MatchAfterPercent(text, Tail(pat))
    ELSE IF Head(pat) = "_"
         THEN (IF text = "" THEN "abort" ELSE MatchAfterPercent(Tail(text), Tail(pat)))
    ELSE IF Head(pat) = "\\" /\ Len(pat) < 2 THEN "error"
    ELSE MatchScan(text, pat)

MatchScan(text, pat) ==
    IF text = "" THEN "abort"
    ELSE IF Head(text) = FirstPat(pat)
         THEN MatchScanNext(text, pat, MatchText(text, pat))
    ELSE MatchScan(Tail(text), pat)

MatchScanNext(text, pat, matched) ==
    IF matched # "false" THEN matched ELSE MatchScan(Tail(text), pat)

\* text LIKE pattern: <<TRUE>> or <<FALSE>>, or <<>> for the store's error
LikeMatch(pat, text) ==
    IF MatchText(text, pat) = "error" THEN <<>>
    ELSE <<MatchText(text, pat) = "true">>

\* column.ilike(pattern), the statement failing on the store's error
ilike(text, pat) == LikeMatch(Lower(pat), Lower(text))

\* column.ilike(pattern) holds
ilike_holds(text, pat) == ilike(text, pat) = <<TRUE>>

\* column.ilike(f"%{s}%")
ilike_contains(text, s) == ilike_holds(text, "%" \o s \o "%")

(***************************************************************************)
(* State.                                                                  *)
(*   db      the committed rows of the store: the person table (committee, *)
(*           in table order), the entity tables, the junction tables, and  *)
(*           the place of each entity row in the heap of its table (heap): *)
(*           a SELECT without ORDER BY returns the rows in heap order      *)
(*   serial  the next value of each table's id sequence, and the next free *)
(*           place of the heap (place)                                     *)
(*   member_cache, member_first_name_index, cache_loaded                   *)
(*           the fields of DatabaseTools set in __init__                   *)
(*   inv     the tool invocations in flight, one per process: the position *)
(*           (pc), the call, the local variables and the open session,     *)
(*           the number of statements it ran against the store (io) and,   *)
(*           while its session is being closed, what it does next (ret)    *)
(*   log     the invocations that returned, in the order they returned     *)
(*   ncalls  invocations started; cache_loads: runs of the load loop of    *)
(*           _ensure_cache                                                 *)
(*   query, answer  the last name given to _fuzzy_match_member directly    *)
(*           and its result (resolver specification)                       *)
(***************************************************************************)
VARIABLES db, serial, member_cache, member_first_name_index, cache_loaded,
          inv, log, ncalls, cache_loads, query, answer

vars == <<db, serial, member_cache, member_first_name_index, cache_loaded,
          inv, log, ncalls, cache_loads, query, answer>>

\* the invocations that can be in flight at the same time
Procs == {1, 2}

\* a nullable column holds <<>> (NULL) or <<v>>
NoRow == [id |-> 0, name |-> ""]

\* a row of the person table, its email and role NULL
Person(i, n, d) ==
    [id |-> i, name |-> n, discord_id |-> d, email |-> <<>>, role |-> <<>>]

\* a row of the task table, its task_description NULL
TaskRow(i, n, st, dl) ==
    [id |-> i, name |-> n, description |-> <<>>, status |-> st, deadline |-> dl]

\* a row of the project or of the topic table, its description NULL
Row(i, n) == [id |-> i, name |-> n, description |-> <<>>]

\* a row of the meeting table, its meeting_summary NULL, ingested at ts
MeetingRow(i, n, ts) ==
    [id |-> i, name |-> n, summary |-> <<>>, ingestion_timestamp |-> ts]

EntityTables == {"task", "meeting", "project", "topic"}

\* the primary keys of a set of rows
Ids(rows) == {r.id : r \in rows}

\* the first place of the heap the invocations of a behaviour write to
HeapTop == 100

\* the places of the rows of d written in the order of their ids ("asc") or
\* against it ("desc")
Heap(d, dir) ==
    [t \in EntityTables |->
        [i \in Ids(d[t]) |-> IF dir = "asc" THEN i ELSE HeapTop - i]]

\* the store d with its rows laid out in the direction dir
Laid(d, dir) ==
    [t \in DOMAIN d \cup {"heap"} |-> IF t = "heap" THEN Heap(d, dir) ELSE d[t]]

\* the rows, in the order of their places: what a scan of a table returns
\* of the rows that pass its WHERE clause
InScanOrder(rows, place) ==
    [i \in 1..Cardinality(rows) |->
        CHOOSE r \in rows :
            Cardinality({x \in rows : place[x.id] < place[r.id]}) = i - 1]

\* the rows of the store the tool specification starts from
InitialRows ==
    [committee       |-> <<Person(1, "Sam Li", 11), Person(2, "Sam Ro", 12),
                           Person(3, "Al Jo", 13)>>,
     task            |-> {TaskRow(1, "Fix bug", <<>>, <<>>),
                          TaskRow(2, "Fix doc", <<"incomplete">>, <<>>)},
     project         |-> {Row(1, "Web")},
     topic           |-> {Row(1, "Budget")},
     meeting         |-> {MeetingRow(1, "Kickoff", <<1>>)},
     task_members    |-> {<<2, 2>>},
     project_members |-> {},
     meeting_topics  |-> {},
     meeting_members |-> {},
     meeting_tasks   |-> {},
     meeting_projects |-> {},
     project_tasks   |-> {}]

\* the store the tool specification starts from, and the stores it is
\* started from
InitialDb == Laid(InitialRows, "asc")

Stores(d) == {Laid(d, "asc"), Laid(d, "desc")}

InitialSerial == [task |-> 3, project |-> 2, topic |-> 2, place |-> HeapTop]

\* the local variables of an invocation and the pending work of its session
Loc0 ==
    [m        |-> NoMember,   \* matched_member
     ms       |-> <<>>,       \* matched_members
     ent      |-> NoRow,      \* the task, meeting or project found
     top      |-> NoRow,      \* the topic found or created
     new      |-> NoRow,      \* the entity row added to the session
     added    |-> FALSE,      \* session.add(new) has run
     flushed  |-> FALSE,      \* new has been flushed (its id is assigned)
     place    |-> 0,          \* the place of the heap the flush wrote to
     adds     |-> <<>>,       \* junction pairs added to the session
     sent     |-> FALSE,      \* the flush of the commit has run
     got      |-> <<>>,       \* the results of the SELECTs of a report
     del      |-> <<>>,       \* junction pairs deleted in the session
     rowcount |-> 0,          \* result.rowcount of the DELETE
     deadline |-> <<>>]       \* task_deadline

NoCall == [tool |-> "", args |-> <<>>, user |-> 0, nonstr |-> {}]

Idle == [pc |-> "idle", call |-> NoCall, loc |-> Loc0, solo |-> FALSE, pre |-> <<>>,
         io |-> 0, ret |-> <<>>]

\* what a piece of code ends in: a returned envelope, a raised exception,
\* an await that suspends at position pc with the locals loc, or the exit of
\* an "async with self.async_session()" block that ran no statement, which
\* awaits the close of the session and then ends in out
Return(env) == [kind |-> "return", env |-> env]
Raise(msg) == [kind |-> "raise", msg |-> msg]
Goto(pc, loc) == [kind |-> "goto", pc |-> pc, loc |-> loc]
Closing(out) == [kind |-> "closing", out |-> out]

(***************************************************************************)
(* datetime.strptime(deadline, '%Y-%m-%d').date()                          *)
(***************************************************************************)
AllDigits(s) == s # "" /\ \A i \in 1..Len(s) : IsDigit(Char(s, i))

DaysIn(y, m) ==
    IF m \in {4, 6, 9, 11} THEN 30
    ELSE IF m = 2
         THEN (IF (y % 4 = 0 /\ y % 100 # 0) \/ y % 400 = 0 THEN 29 ELSE 28)
    ELSE 31

\* what follows the first "-" of s
AfterDash(s) == SubSeq(s, Len(SplitFirst(s, "-")) + 2, Len(s))

\* the digits of a %d field: one or two digits, or a space and one digit
DayDigits(dy) ==
    IF Len(dy) = 2 /\ Head(dy) = " " THEN Tail(dy) ELSE dy

\* the date of the fields %Y, %m and %d, or <<>> for ValueError
strptime_fields(ys, mo, dy) ==
    IF /\ AllDigits(ys) /\ Len(ys) = 4
       /\ AllDigits(mo) /\ Len(mo) <= 2
       /\ AllDigits(DayDigits(dy)) /\ Len(dy) <= 2
       /\ DigitsVal(ys, 0) >= 1
       /\ DigitsVal(mo, 0) \in 1..12
       /\ DigitsVal(DayDigits(dy), 0)
             \in 1..DaysIn(DigitsVal(ys, 0), DigitsVal(mo, 0))
    THEN <<[y |-> DigitsVal(ys, 0), m |-> DigitsVal(mo, 0),
            d |-> DigitsVal(DayDigits(dy), 0)]>>
    ELSE <<>>

\* <<[y, m, d]>>, or <<>> for ValueError: four digits, then one or two for
\* the month and for the day (or a space and a digit for the day), a date
\* of the calendar
strptime(s) ==
    IF HasChar(s, "-") /\ HasChar(AfterDash(s), "-")
    THEN strptime_fields(SplitFirst(s, "-"), SplitFirst(AfterDash(s), "-"),
                         AfterDash(AfterDash(s)))
    ELSE <<>>

(***************************************************************************)
(* ToolExecutor._call_tool and the code of each tool up to its first       *)
(* await that suspends.                                                    *)
(***************************************************************************)
\* args.get(key, default)
Get(args, key, default) == IF key \in DOMAIN args THEN args[key] ELSE default

\* TOOL_DEFINITIONS: the name and the "required" list of each entry of the
\* catalog, in the order of the list
TOOL_DEFINITIONS ==
    <<[name |-> "get_my_tasks",            required |-> <<>>],
      [name |-> "get_current_datetime",    required |-> <<>>],
      [name |-> "get_my_identity",         required |-> <<>>],
      [name |-> "get_all_tasks",           required |-> <<>>],
      [name |-> "get_member_info",         required |-> <<"member_name">>],
      [name |-> "get_meeting_info",        required |-> <<"meeting_identifier">>],
      [name |-> "get_meetings_for_member", required |-> <<"member_name">>],
      [name |-> "get_missed_meetings",     required |-> <<>>],
      [name |-> "get_project_info",        required |-> <<"project_name">>],
      [name |-> "get_all_projects",        required |-> <<>>],
      [name |-> "get_all_members",         required |-> <<>>],
      [name |-> "get_topic_info",          required |-> <<"topic_name">>],
      [name |-> "search_database",         required |-> <<"search_query">>],
      [name |-> "update_task_status",      required |-> <<"task_identifier", "new_status">>],
      [name |-> "assign_member_to_task",   required |-> <<"task_identifier", "member_name">>],
      [name |-> "remove_member_from_task", required |-> <<"task_identifier", "member_name">>],
      [name |-> "create_task",             required |-> <<"task_name">>],
      [name |-> "create_project",          required |-> <<"project_name">>],
      [name |-> "add_member_to_project",   required |-> <<"project_name", "member_name">>],
      [name |-> "create_topic",            required |-> <<"topic_name">>],
      [name |-> "add_topic_to_meeting",    required |-> <<"meeting_identifier", "topic_name">>]>>

\* the tool name each branch of the if/elif chain of _call_tool tests for,
\* in the order of the chain
Branches ==
    <<"get_my_tasks", "get_my_identity", "get_current_datetime", "get_all_tasks",
      "get_member_info", "get_meeting_info", "get_meetings_for_member",
      "get_missed_meetings", "get_project_info", "get_all_projects",
      "get_all_members", "get_topic_info", "search_database",
      "update_task_status", "assign_member_to_task", "remove_member_from_task",
      "create_task", "create_project", "add_member_to_project", "create_topic",
      "add_topic_to_meeting">>

\* the tool names _call_tool has a branch for
Tools == {Branches[i] : i \in DOMAIN Branches}

\* branches that read every key with args.get
RequiredArgsNone(tool) == <<>>

\* the keys a branch of _call_tool reads as args[key], in the order read
RequiredArgs(tool) ==
    CASE tool \in {"assign_member_to_task", "remove_member_from_task"}
            -> <<"task_identifier", "member_name">>
      [] tool = "create_task" -> <<"task_name">>
      [] tool = "create_project" -> <<"project_name">>
      [] tool = "add_member_to_project" -> <<"project_name", "member_name">>
      [] tool = "create_topic" -> <<"topic_name">>
      [] tool = "add_topic_to_meeting" -> <<"meeting_identifier", "topic_name">>
      [] tool \in {"get_member_info", "get_meetings_for_member"} -> <<"member_name">>
      [] tool = "get_meeting_info" -> <<"meeting_identifier">>
      [] tool = "get_project_info" -> <<"project_name">>
      [] tool = "get_topic_info" -> <<"topic_name">>
      [] tool = "search_database" -> <<"search_query">>
      [] tool = "update_task_status" -> <<"task_identifier", "new_status">>
      [] OTHER -> <<>>

\* the branches of _call_tool that first test "if not user_discord_id"
IdentityTools == {"get_my_tasks", "get_my_identity", "get_missed_meetings"}

\* every tool awaiting _ensure_cache
CacheToolsAll == Tools

\* the tools whose first statement is await self._ensure_cache(), their own
\* or that of get_member_by_discord_id
CacheTools == {"assign_member_to_task", "remove_member_from_task", "create_task",
               "create_project", "add_member_to_project", "get_my_tasks",
               "get_my_identity", "get_missed_meetings", "get_member_info",
               "get_meetings_for_member"}

MemberNotFound(name) == [error |-> "Could not find a member matching '" \o name \o "'"]

\* matched = self._fuzzy_match_member(name) for each name in turn, up to the
\* first name that matches nobody (bad): the loop of create_task and
\* create_project, and the single match of the other tools
RECURSIVE MatchAll(_, _, _, _)
RECURSIVE MatchNext(_, _, _, _, _)
MatchNext(names, cache, index, acc, matched) ==
    IF matched # NoMember
    THEN MatchAll(Tail(names), cache, index, Append(acc, matched))
    ELSE [ms |-> acc, bad |-> <<Head(names)>>]

MatchAll(names, cache, index, acc) ==
    IF names = <<>> THEN [ms |-> acc, bad |-> <<>>]
    ELSE MatchNext(names, cache, index, acc,
                   fuzzy_match_member(Head(names), cache, index))

\* the ID-or-name lookups start with int(identifier)
FirstLookup(identifier) == IF int(identifier) # <<>> THEN "find_id" ELSE "find_name"

\* the names a tool gives to _fuzzy_match_member, in order
NamesToMatch(c) ==
    CASE c.tool \in {"assign_member_to_task", "remove_member_from_task",
                     "add_member_to_project", "get_member_info",
                     "get_meetings_for_member"} -> <<c.args.member_name>>
      [] c.tool = "create_task" -> Get(c.args, "assigned_to", <<>>)
      [] c.tool = "create_project" -> Get(c.args, "team_members", <<>>)
      [] OTHER -> <<>>

\* "if deadline and deadline.lower() != 'null'"
HasDeadline(c) ==
    Get(c.args, "deadline", "") # "" /\ Lower(Get(c.args, "deadline", "")) # "null"

\* task_deadline: <<date>>, or <<>> for None and for ValueError
task_deadline(c) ==
    IF HasDeadline(c) THEN strptime(Get(c.args, "deadline", "")) ELSE <<>>

\* an optional argument as the column it is stored in: <<value>>, or <<>>
\* (NULL) for the default None
Nullable(args, key) == IF key \in DOMAIN args THEN <<args[key]>> ELSE <<>>

\* the row the tool adds to its session: Task(...), Project(...), Topic(...);
\* the store gives it its id at the INSERT
new_row(c, deadline) ==
    CASE c.tool = "create_task" ->
            [TaskRow(0, c.args.task_name, <<"incomplete">>, deadline)
                EXCEPT !.description = Nullable(c.args, "task_description")]
      [] c.tool = "create_project" ->
            [Row(0, c.args.project_name)
                EXCEPT !.description = Nullable(c.args, "project_description")]
      [] c.tool = "create_topic" ->
            [Row(0, c.args.topic_name)
                EXCEPT !.description = Nullable(c.args, "topic_description")]
      [] c.tool = "add_topic_to_meeting" -> Row(0, c.args.topic_name)

\* a create_task that goes on with the members matched before the first
\* name that matches nobody
create_task_partial(c, found, parsed) ==
    IF HasDeadline(c) /\ parsed = <<>>
    THEN Return([error |-> "Invalid deadline format. Please use YYYY-MM-DD"])
    ELSE Goto("flush",
              [Loc0 EXCEPT !.ms = found.ms, !.deadline = parsed,
                           !.new = new_row(c, parsed), !.added = TRUE])

\* create_task from the deadline parsing to session.flush(), found being the
\* result of matching assigned_to and parsed the task_deadline
create_task_parsed(c, found, parsed) ==
    IF HasDeadline(c) /\ parsed = <<>>
    THEN Return([error |-> "Invalid deadline format. Please use YYYY-MM-DD"])
    ELSE IF found.bad # <<>> THEN Return(MemberNotFound(found.bad[1]))
    ELSE IF Get(c.args, "assign_to_current_user", FALSE) /\ c.user # 0
    THEN Goto("ct_me", [Loc0 EXCEPT !.ms = found.ms, !.deadline = parsed])
    ELSE Goto("flush",
              [Loc0 EXCEPT !.ms = found.ms, !.deadline = parsed,
                           !.new = new_row(c, parsed), !.added = TRUE])

create_task_body(c, found) == create_task_parsed(c, found, task_deadline(c))

\* get_current_datetime: the reading of the server clock, datetime.now()
\* being 2024-03-01 09:30:00
Clock ==
    [current_datetime_iso |-> "2024-03-01T09:30:00",
     current_date         |-> "2024-03-01",
     current_time         |-> "09:30:00",
     timezone             |-> "server-local"]

\* the sections search_in selects
SearchKinds(search_in) ==
    {k \in {"members", "meetings", "projects", "tasks", "topics"} :
        search_in \in {k, "all"}}

\* the tools that give their member_name to _fuzzy_match_member
MemberTools == {"assign_member_to_task", "remove_member_from_task",
                "add_member_to_project", "get_member_info",
                "get_meetings_for_member"}

\* _fuzzy_match_member(n) and "if not matched" for a member_name that is the
\* int n: (n or "").strip() is "" for 0, which matches nobody, and raises
\* AttributeError for every other n
number_name(c) ==
    IF int(c.args.member_name) = <<0>>
    THEN Return(MemberNotFound("0"))
    ELSE Raise("'int' object has no attribute 'strip'")

\* the code of a tool after _ensure_cache has returned, up to the first
\* await, found being the result of matching the names the tool was given
tool_steps(c, found) ==
    CASE c.tool \in {"assign_member_to_task", "remove_member_from_task",
                     "add_member_to_project"} ->
            IF found.bad # <<>>
            THEN Return(MemberNotFound(c.args.member_name))
            ELSE Goto(IF c.tool = "add_member_to_project" THEN "find_name"
                      ELSE FirstLookup(c.args.task_identifier),
                      [Loc0 EXCEPT !.m = found.ms[1]])
      [] c.tool = "create_task" -> create_task_body(c, found)
      [] c.tool = "create_project" ->
            IF found.bad # <<>> THEN Return(MemberNotFound(found.bad[1]))
            ELSE Goto("cp_check", [Loc0 EXCEPT !.ms = found.ms])
      [] c.tool = "create_topic" -> Goto("ctp_check", Loc0)
      [] c.tool = "add_topic_to_meeting" ->
            Goto(FirstLookup(c.args.meeting_identifier), Loc0)
      [] c.tool \in IdentityTools -> Goto("ct_me", Loc0)
      [] c.tool \in {"get_member_info", "get_meetings_for_member"} ->
            IF found.bad # <<>> THEN Return(MemberNotFound(c.args.member_name))
            ELSE Goto(IF c.tool = "get_member_info" THEN "gmi_member" ELSE "report",
                      [Loc0 EXCEPT !.m = found.ms[1]])
      [] c.tool = "get_meeting_info" ->
            Goto(FirstLookup(c.args.meeting_identifier), Loc0)
      [] c.tool \in {"get_project_info", "get_topic_info"} -> Goto("find_name", Loc0)
      [] c.tool \in {"get_all_tasks", "get_all_projects", "get_all_members"} ->
            Goto("report", Loc0)
      [] c.tool = "search_database" ->
            IF SearchKinds(Get(c.args, "search_in", "all")) = {}
            THEN Closing(Return([message |-> "No results found for '"
                                             \o c.args.search_query \o "'"]))
            ELSE Goto("report", Loc0)
      [] c.tool = "update_task_status" ->
            IF c.args.new_status \notin {"complete", "incomplete"}
            THEN Return([error |-> "Status must be 'complete' or 'incomplete'"])
            ELSE Goto(FirstLookup(c.args.task_identifier), Loc0)
      [] c.tool = "get_current_datetime" -> Return(Clock)

tool_body(c, found) ==
    IF c.tool \in MemberTools /\ "member_name" \in c.nonstr
    THEN number_name(c)
    ELSE tool_steps(c, found)

after_cache(c, cache, index) ==
    tool_body(c, MatchAll(NamesToMatch(c), cache, index, <<>>))

\* the keys of RequiredArgs the call does not give, by position
MissingArgs(c) ==
    {i \in DOMAIN RequiredArgs(c.tool) : RequiredArgs(c.tool)[i] \notin DOMAIN c.args}

\* a _call_tool whose branches read their keys with args.get(key): a tool
\* given None for a missing key finds nothing by that name
call_tool_get(c, loaded, cache, index) ==
    IF c.tool \notin Tools THEN Return([error |-> "Unknown tool: " \o c.tool])
    ELSE IF MissingArgs(c) # {}
    THEN Return([error |-> "Could not find a match for 'None'"])
    ELSE IF c.tool \in IdentityTools /\ c.user = 0
    THEN Return([error |-> "Cannot identify you. Your Discord account may not be linked."])
    ELSE IF c.tool \in CacheTools /\ ~loaded THEN Goto("ec_execute", Loc0)
    ELSE after_cache(c, cache, index)

\* a _call_tool whose last branch raises instead of returning the envelope
call_tool_raises(c, loaded, cache, index) ==
    IF c.tool \notin Tools THEN Raise("Unknown tool: " \o c.tool)
    ELSE IF MissingArgs(c) # {}
    THEN Raise("'" \o RequiredArgs(c.tool)[Least(MissingArgs(c))] \o "'")
    ELSE IF c.tool \in IdentityTools /\ c.user = 0
    THEN Return([error |-> "Cannot identify you. Your Discord account may not be linked."])
    ELSE IF c.tool \in CacheTools /\ ~loaded THEN Goto("ec_execute", Loc0)
    ELSE after_cache(c, cache, index)

\* _call_tool: the branch for the tool name, its args[key] lookups, and the
\* call of the tool, which first awaits _ensure_cache where the tool has it
call_tool(c, loaded, cache, index) ==
    IF c.tool \notin Tools THEN Return([error |-> "Unknown tool: " \o c.tool])
    ELSE IF MissingArgs(c) # {}
    THEN Raise("'" \o RequiredArgs(c.tool)[Least(MissingArgs(c))] \o "'")
    ELSE IF c.tool \in IdentityTools /\ c.user = 0
    THEN Return([error |-> "Cannot identify you. Your Discord account may not be linked."])
    ELSE IF c.tool \in CacheTools /\ ~loaded THEN Goto("ec_execute", Loc0)
    ELSE after_cache(c, cache, index)

\* ToolExecutor.execute: the envelope _call_tool returned, or the envelope
\* made of the exception it raised
execute_propagates(out) ==
    IF out.kind = "raise" THEN [exception |-> out.msg] ELSE out.env

execute(out) ==
    IF out.kind = "raise"
    THEN [error |-> "Tool execution failed: " \o out.msg]
    ELSE out.env

(***************************************************************************)
(* Result envelopes and the helpers that build them.                       *)
(***************************************************************************)
\* a slice that keeps the whole list
TakeAll(seq, n) == seq

\* seq[:n]
Take(seq, n) == SubSeq(seq, 1, IF Len(seq) < n THEN Len(seq) ELSE n)

\* the cap rows[:5] on the matches of an ambiguous lookup
MatchCap == 5

\* ', '.join(m['name'] for m in ms)
RECURSIVE JoinNames(_)
JoinNames(ms) ==
    IF ms = <<>> THEN ""
    ELSE IF Len(ms) = 1 THEN ms[1].name
    ELSE ms[1].name \o ", " \o JoinNames(Tail(ms))

Names(ms) == [i \in DOMAIN ms |-> ms[i].name]

\* str(n) for 0 <= n, padded with zeros to width w
RECURSIVE Digits(_, _)
Digits(n, w) ==
    IF w = 0 THEN ""
    ELSE Digits(n \div 10, w - 1) \o Char("0123456789", (n % 10) + 1)

\* str(task_deadline) if task_deadline else None
DateStr(d) ==
    IF d = <<>> THEN <<>>
    ELSE <<Digits(d[1].y, 4) \o "-" \o Digits(d[1].m, 2) \o "-" \o Digits(d[1].d, 2)>>

MultipleResultsFound == "Multiple rows were found when one or none was required"

\* the text of the store's error for a duplicate primary key
IntegrityError == "(IntegrityError) duplicate key value violates unique constraint"

\* the table an ID-or-name lookup of the tool searches
LookupTable(tool) ==
    CASE tool \in {"assign_member_to_task", "remove_member_from_task",
                   "update_task_status"} -> "task"
      [] tool \in {"add_member_to_project", "get_project_info"} -> "project"
      [] tool \in {"add_topic_to_meeting", "get_meeting_info"} -> "meeting"
      [] tool = "get_topic_info" -> "topic"

\* the identifier argument of the tool's lookup
LookupArg(c) ==
    CASE c.tool \in {"assign_member_to_task", "remove_member_from_task",
                     "update_task_status"} -> c.args.task_identifier
      [] c.tool \in {"add_member_to_project", "get_project_info"} -> c.args.project_name
      [] c.tool \in {"add_topic_to_meeting", "get_meeting_info"}
            -> c.args.meeting_identifier
      [] c.tool = "get_topic_info" -> c.args.topic_name

\* the junction table the tool links in
LinkTable(tool) ==
    CASE tool \in {"assign_member_to_task", "remove_member_from_task", "create_task"}
            -> "task_members"
      [] tool \in {"create_project", "add_member_to_project"} -> "project_members"
      [] tool = "add_topic_to_meeting" -> "meeting_topics"
      [] OTHER -> "none"

\* the entity table the tool inserts into
NewTable(tool) ==
    CASE tool = "create_task" -> "task"
      [] tool = "create_project" -> "project"
      [] tool \in {"create_topic", "add_topic_to_meeting"} -> "topic"
      [] OTHER -> "none"

\* [{"id": r.id, "name": r.name} for r in rows[:5]]
IdNames(rows) ==
    Take([i \in DOMAIN rows |-> [id |-> rows[i].id, name |-> rows[i].name]],
         MatchCap)

\* [r.name for r in rows[:5]]: a list of strings; an element that is a
\* string s, not an object, is written [str |-> s]
BareNames(rows) == Take([i \in DOMAIN rows |-> [str |-> rows[i].name]], MatchCap)

\* the envelope of a lookup by name that matched several rows, rows being
\* the list the SELECT returned
Ambiguous(c, rows) ==
    CASE c.tool = "assign_member_to_task" ->
            [error   |-> "Multiple tasks match. Please be more specific.",
             matches |-> IdNames(rows)]
      [] c.tool = "update_task_status" ->
            [error   |-> "Multiple tasks match that name. Please be more specific.",
             matches |-> IdNames(rows)]
      [] c.tool = "get_meeting_info" ->
            [error   |-> "Multiple meetings match that name",
             matches |-> IdNames(rows)]
      [] c.tool = "get_project_info" ->
            [error   |-> "Multiple projects match that name",
             matches |-> IdNames(rows)]
      [] c.tool = "add_member_to_project" ->
            [error   |-> "Multiple projects match. Please be more specific.",
             matches |-> BareNames(rows)]
      [] c.tool = "add_topic_to_meeting" ->
            [error   |-> "Multiple meetings match. Please be more specific.",
             matches |-> BareNames(rows)]

\* the envelope of a lookup that found no row
NotFound(c) ==
    [error |-> "Could not find a "
               \o (CASE LookupTable(c.tool) = "task" -> "task"
                     [] LookupTable(c.tool) = "project" -> "project"
                     [] LookupTable(c.tool) = "meeting" -> "meeting"
                     [] LookupTable(c.tool) = "topic" -> "topic")
               \o " matching '" \o LookupArg(c) \o "'"]

\* the envelope of a link that exists already
AlreadyLinked(c, loc) ==
    CASE c.tool = "assign_member_to_task" ->
            [error |-> loc.m.name \o " is already assigned to '" \o loc.ent.name \o "'"]
      [] c.tool = "add_member_to_project" ->
            [error |-> loc.m.name \o " is already a member of '" \o loc.ent.name \o "'"]
      [] c.tool = "add_topic_to_meeting" ->
            [error |-> "Topic '" \o loc.top.name \o "' is already linked to meeting '"
                       \o loc.ent.name \o "'"]

\* the envelope of a name that exists already
AlreadyExists(c) ==
    IF c.tool = "create_project"
    THEN [error |-> "A project named '" \o c.args.project_name \o "' already exists"]
    ELSE [error |-> "A topic named '" \o c.args.topic_name \o "' already exists"]

\* the envelope a tool returns after its commit
Success(c, loc) ==
    CASE c.tool = "assign_member_to_task" ->
            [success |-> TRUE,
             message |-> "Assigned " \o loc.m.name \o " to task '" \o loc.ent.name \o "'",
             task_id |-> loc.ent.id, task_name |-> loc.ent.name,
             member_name |-> loc.m.name]
      [] c.tool = "remove_member_from_task" ->
            IF loc.rowcount = 0
            THEN [error |-> loc.m.name \o " was not assigned to '" \o loc.ent.name \o "'"]
            ELSE [success |-> TRUE,
                  message |-> "Removed " \o loc.m.name \o " from task '"
                              \o loc.ent.name \o "'"]
      [] c.tool = "create_task" ->
            [success |-> TRUE,
             message |-> "Created task '" \o c.args.task_name \o "'"
                         \o (IF loc.ms # <<>>
                             THEN " and assigned to " \o JoinNames(loc.ms) ELSE ""),
             task_id |-> loc.new.id, task_name |-> c.args.task_name,
             deadline |-> DateStr(loc.deadline), assigned_to |-> Names(loc.ms)]
      [] c.tool = "create_project" ->
            [success |-> TRUE,
             message |-> "Created project '" \o c.args.project_name \o "'"
                         \o (IF loc.ms # <<>>
                             THEN " with team: " \o JoinNames(loc.ms) ELSE ""),
             project_id |-> loc.new.id, project_name |-> c.args.project_name,
             team_members |-> Names(loc.ms)]
      [] c.tool = "add_member_to_project" ->
            [success |-> TRUE,
             message |-> "Added " \o loc.m.name \o " to project '" \o loc.ent.name \o "'"]
      [] c.tool = "create_topic" ->
            [success |-> TRUE,
             message |-> "Created topic '" \o c.args.topic_name \o "'",
             topic_id |-> loc.new.id, topic_name |-> c.args.topic_name]
      [] c.tool = "add_topic_to_meeting" ->
            [success |-> TRUE,
             message |-> "Linked topic '" \o loc.top.name \o "' to meeting '"
                         \o loc.ent.name \o "'"]

(***************************************************************************)
(* The steps of an invocation.  A step runs the code from one suspending   *)
(* await to the next; reads see the committed rows of db.                  *)
(***************************************************************************)
NoWrites == [rows |-> {}, links |-> {}, unlinks |-> {}, updates |-> {}]

\* the positions whose step is the return of a statement run against the
\* store; at "ec_close" and "close" a session is closed
Touches(pc) == pc \notin {"ec_close", "close"}

\* the statements p's invocation has run against the store after its step
IoAfter(p) == inv[p].io + (IF Touches(inv[p].pc) THEN 1 ELSE 0)

\* what an invocation does once its session is closed: out, after a last
\* step that wrote the rows and links of wrote and left the store as post
Pending(out, wrote, post) == <<[out |-> out, wrote |-> wrote, post |-> post]>>

\* process p after a step of its invocation, inside a session, that ended in
\* out: the next statement of the session, or the exit of the "async with"
\* block, which awaits the close of the session before the tool returns
ProcAfter(p, out, wrote, post) ==
    IF out.kind = "goto"
    THEN [inv[p] EXCEPT !.pc = out.pc, !.loc = out.loc, !.io = IoAfter(p)]
    ELSE [inv[p] EXCEPT !.pc = "close", !.io = IoAfter(p),
                        !.ret = Pending(out, wrote, post)]

\* the log after p's invocation ended in out, its last step having written
\* the rows and links of wrote and left the store as post
LogAfter(p, out, wrote, post) ==
    IF out.kind \in {"goto", "closing"} THEN log
    ELSE Append(log, [call   |-> inv[p].call,
                      result |-> execute(out),
                      raised |-> IF out.kind = "raise" THEN <<out.msg>> ELSE <<>>,
                      solo   |-> inv[p].solo,
                      io     |-> inv[p].io,
                      loc    |-> inv[p].loc,
                      pre    |-> inv[p].pre,
                      post   |-> post,
                      wrote  |-> wrote])

\* a step of p inside a session that ends in out and writes nothing to the
\* store
Step(p, out) ==
    /\ inv' = [inv EXCEPT ![p] = ProcAfter(p, out, NoWrites, db)]
    /\ UNCHANGED <<db, log>>

\* a step of p whose session is closed whatever the tool does next
StepClosing(p, out) ==
    /\ inv' = [inv EXCEPT ![p] =
                 [inv[p] EXCEPT !.pc = "close", !.io = IoAfter(p),
                                !.ret = Pending(out, NoWrites, db)]]
    /\ UNCHANGED <<db, log>>

\* a step of p outside a session that ends in out
StepOut(p, out) ==
    /\ inv' = [inv EXCEPT ![p] =
                 CASE out.kind = "goto" ->
                        [inv[p] EXCEPT !.pc = out.pc, !.loc = out.loc, !.ret = <<>>]
                   [] out.kind = "closing" ->
                        [inv[p] EXCEPT !.pc = "close",
                                       !.ret = Pending(out.out, NoWrites, db)]
                   [] OTHER -> Idle]
    /\ log' = LogAfter(p, out, NoWrites, db)
    /\ UNCHANGED db

\* the calls the model draws: tool, argument bag, caller identity, and the
\* argument keys whose value is a number where the code expects a str (the
\* argument bag then holds the digits of the number)
Call(tool, args, user) == [tool |-> tool, args |-> args, user |-> user, nonstr |-> {}]

Calls ==
    {Call("assign_member_to_task", [task_identifier |-> "1", member_name |-> "Sam Li"], 0),
     Call("assign_member_to_task", [task_identifier |-> "bug", member_name |-> "sam li."], 0),
     Call("assign_member_to_task", [task_identifier |-> "Fix", member_name |-> "Al"], 0),
     Call("assign_member_to_task", [task_identifier |-> "1"], 0),
     [tool |-> "assign_member_to_task",
      args |-> [task_identifier |-> "1", member_name |-> "7"],
      user |-> 0, nonstr |-> {"member_name"}],
     [tool |-> "remove_member_from_task",
      args |-> [task_identifier |-> "1", member_name |-> "0"],
      user |-> 0, nonstr |-> {"member_name"}],
     Call("remove_member_from_task", [task_identifier |-> "1", member_name |-> "Sam Li"], 0),
     Call("create_task", [task_name |-> "New",
                          assigned_to |-> <<"Al Jo", "Nobody Xx", "Zed Qq">>], 0),
     Call("create_task", [task_name |-> "New", assigned_to |-> <<"Al Jo", "Al">>], 0),
     Call("create_task", [task_name |-> "New", assigned_to |-> <<"Al Jo">>,
                          deadline |-> "2024-03-01",
                          assign_to_current_user |-> TRUE], 13),
     Call("create_task", [task_name |-> "New", assign_to_current_user |-> TRUE], 99),
     Call("create_task", [task_name |-> "New", assigned_to |-> <<"Nobody Xx">>,
                          deadline |-> "soon"], 0),
     Call("create_task", [task_name |-> "New", deadline |-> "2024-03- 1"], 0),
     Call("create_project", [project_name |-> "web", team_members |-> <<"Sam Li">>], 0),
     Call("create_project", [project_name |-> "App", team_members |-> <<"Al", "al jo">>], 0),
     Call("add_member_to_project", [project_name |-> "Web", member_name |-> "Sam Li"], 0),
     Call("create_topic", [topic_name |-> "budget"], 0),
     Call("create_topic", [topic_name |-> "Plan", topic_description |-> "Q3"], 0),
     Call("create_topic", [topic_name |-> ""], 0),
     Call("create_topic", [topic_name |-> "Bud\\"], 0),
     Call("create_topic", [topic_name |-> "a\\b"], 0),
     Call("create_project", [project_name |-> "Web\\"], 0),
     Call("add_topic_to_meeting", [meeting_identifier |-> "1", topic_name |-> "PLAN"], 0),
     Call("add_topic_to_meeting", [meeting_identifier |-> "Kick", topic_name |-> "Bud"], 0),
     Call("delete_everything", <<>>, 0)}

\* the invocation of call c that process p starts
Started(p, c) ==
    [pc |-> "idle", call |-> c, loc |-> Loc0,
     solo |-> \A q \in Procs \ {p} : inv[q].pc = "idle",
     pre |-> db, io |-> 0, ret |-> <<>>]

\* process p runs call c up to its first suspending await, or to its end: out
InvokeTo(p, c, out) ==
    /\ inv' = [q \in Procs |->
                 IF q = p
                 THEN (CASE out.kind = "goto" ->
                              [Started(p, c) EXCEPT !.pc = out.pc, !.loc = out.loc]
                         [] out.kind = "closing" ->
                              [Started(p, c) EXCEPT
                                  !.pc = "close",
                                  !.ret = Pending(out.out, NoWrites, db)]
                         [] OTHER -> Idle)
                 ELSE [inv[q] EXCEPT !.solo = FALSE]]
    /\ log' = IF out.kind \in {"goto", "closing"} THEN log
              ELSE Append(log, [call   |-> c,
                                result |-> execute(out),
                                raised |-> IF out.kind = "raise"
                                           THEN <<out.msg>> ELSE <<>>,
                                solo   |-> Started(p, c).solo,
                                io     |-> 0,
                                loc    |-> Loc0,
                                pre    |-> db,
                                post   |-> db,
                                wrote  |-> NoWrites])

\* execute(tool_name, arguments, user_discord_id) is called: _call_tool runs
\* up to the first await that suspends
Invoke(p, c) ==
    /\ ncalls < MaxCalls
    /\ inv[p].pc = "idle"
    /\ \A q \in Procs : q < p => inv[q].pc # "idle"
    /\ InvokeTo(p, c, call_tool(c, cache_loaded, member_cache, member_first_name_index))
    /\ ncalls' = ncalls + 1
    /\ UNCHANGED <<db, serial, member_cache, member_first_name_index, cache_loaded,
                   cache_loads, query, answer>>

\* the two indexes after the load loop ended in st
Loaded(p, st) ==
    /\ member_cache' = st.cache
    /\ member_first_name_index' = st.index
    /\ Step(p, IF st.err THEN Raise("list index out of range")
               ELSE Goto("ec_close", inv[p].loc))

\* _ensure_cache: the SELECT on the person table returns and the loop fills
\* the two indexes; the session is then closed, which suspends
EnsureCacheFetch(p) ==
    /\ inv[p].pc = "ec_execute"
    /\ Loaded(p, LoadRows([cache |-> member_cache, index |-> member_first_name_index,
                           err |-> FALSE], db.committee))
    /\ cache_loads' = cache_loads + 1
    /\ UNCHANGED <<serial, cache_loaded, ncalls, query, answer>>

\* _ensure_cache: the session is closed, self._cache_loaded = True, and the
\* tool runs on to its first await
EnsureCacheDone(p) ==
    /\ inv[p].pc = "ec_close"
    /\ cache_loaded' = TRUE
    /\ StepOut(p, after_cache(inv[p].call, member_cache, member_first_name_index))
    /\ UNCHANGED <<serial, member_cache, member_first_name_index, ncalls,
                   cache_loads, query, answer>>

\* where a tool goes on once its lookup has found the row
AfterFound(c, loc, row) ==
    Goto(CASE c.tool = "remove_member_from_task" -> "rm_delete"
           [] c.tool = "add_topic_to_meeting" -> "atm_topic"
           [] c.tool = "update_task_status" -> "uts_commit"
           [] c.tool \in {"get_meeting_info", "get_project_info", "get_topic_info"}
                -> "report"
           [] OTHER -> "check",
         [loc EXCEPT !.ent = row])

\* the SELECT by primary key of an ID-or-name lookup returns
FindById(p) ==
    /\ inv[p].pc = "find_id"
    /\ LET c    == inv[p].call
           rows == {r \in db[LookupTable(c.tool)] : r.id = int(LookupArg(c))[1]}
       IN  Step(p, IF rows # {}
                   THEN AfterFound(c, inv[p].loc, CHOOSE r \in rows : TRUE)
                   ELSE Goto("find_name", inv[p].loc))
    /\ UNCHANGED <<serial, member_cache, member_first_name_index, cache_loaded,
                   ncalls, cache_loads, query, answer>>

\* get_project_info, "try exact match": the first row of the list whose
\* name is the given name, case-folded
RECURSIVE ExactNamed(_, _)
ExactNamed(c, rows) ==
    IF rows = <<>> THEN <<>>
    ELSE IF Lower(Head(rows).name) = Lower(LookupArg(c)) THEN <<Head(rows)>>
    ELSE ExactNamed(c, Tail(rows))

\* the outcome of a lookup by name that returned the list rows
by_name(c, loc, rows) ==
    IF Len(rows) = 1 THEN AfterFound(c, loc, rows[1])
    ELSE IF rows # <<>> /\ c.tool = "get_topic_info"
    THEN AfterFound(c, loc, rows[1])
    ELSE IF c.tool = "get_project_info" /\ ExactNamed(c, rows) # <<>>
    THEN AfterFound(c, loc, ExactNamed(c, rows)[1])
    ELSE IF Len(rows) > 1 /\ c.tool # "remove_member_from_task"
    THEN Return(Ambiguous(c, rows))
    ELSE Return(NotFound(c))

\* the SELECT ... WHERE name ILIKE '%identifier%' of a lookup returns its
\* rows, in heap order
FindByName(p) ==
    /\ inv[p].pc = "find_name"
    /\ LET c == inv[p].call
       IN  Step(p, by_name(c, inv[p].loc,
                           InScanOrder({r \in db[LookupTable(c.tool)] :
                                           ilike_contains(r.name, LookupArg(c))},
                                       db.heap[LookupTable(c.tool)])))
    /\ UNCHANGED <<serial, member_cache, member_first_name_index, cache_loaded,
                   ncalls, cache_loads, query, answer>>

\* the pair the tool links: (task, member), (project, member), (meeting, topic)
LinkPair(c, loc) ==
    IF c.tool = "add_topic_to_meeting"
    THEN <<loc.ent.id, loc.top.id>>
    ELSE <<loc.ent.id, loc.m.id>>

\* a link_check that adds the link whether it is present or not
link_unchecked(c, loc, present) ==
    Goto("commit", [loc EXCEPT !.adds = <<LinkPair(c, loc)>>])

\* the outcome of "check if already linked" given the link is present or not
link_check(c, loc, present) ==
    IF present THEN Return(AlreadyLinked(c, loc))
    ELSE Goto("commit", [loc EXCEPT !.adds = <<LinkPair(c, loc)>>])

\* assign_member_to_task, add_member_to_project, add_topic_to_meeting: the
\* SELECT of the existing link returns; the link is added to the session
LinkCheck(p) ==
    /\ inv[p].pc = "check"
    /\ LET c == inv[p].call
       IN  Step(p, link_check(c, inv[p].loc,
                              LinkPair(c, inv[p].loc) \in db[LinkTable(c.tool)]))
    /\ UNCHANGED <<serial, member_cache, member_first_name_index, cache_loaded,
                   ncalls, cache_loads, query, answer>>

Range(seq) == {seq[i] : i \in DOMAIN seq}

\* the rows of the junction table tab that q's open transaction has deleted
\* and not committed
Deleting(q, tab) ==
    IF inv[q].pc = "commit" /\ LinkTable(inv[q].call.tool) = tab
    THEN Range(inv[q].loc.del) ELSE {}

\* a DELETE whose WHERE clause tests the member alone: the pairs of the
\* member, by task
delete_where_member(rel, pair) ==
    [i \in 1..Cardinality({x \in rel : x[2] = pair[2]}) |->
        CHOOSE x \in {y \in rel : y[2] = pair[2]} :
            Cardinality({y \in rel : y[2] = pair[2] /\ y[1] < x[1]}) = i - 1]

\* delete(TaskMembers).where(and_(task_id == task.task_id, member_id ==
\* matched_member['id'])): the rows of rel the statement deletes
delete_where(rel, pair) ==
    IF pair \in rel THEN <<pair>> ELSE <<>>

\* remove_member_from_task: the DELETE returns its rowcount
RemoveDelete(p) ==
    /\ inv[p].pc = "rm_delete"
    /\ LET c    == inv[p].call
           pair == LinkPair(c, inv[p].loc)
       IN  /\ \A q \in Procs \ {p} : pair \notin Deleting(q, "task_members")
           /\ Step(p, Goto("commit",
                           [inv[p].loc EXCEPT
                               !.del = delete_where(db.task_members, pair),
                               !.rowcount = Len(delete_where(db.task_members, pair))]))
    /\ UNCHANGED <<serial, member_cache, member_first_name_index, cache_loaded,
                   ncalls, cache_loads, query, answer>>

\* the outcome of "check if <name> already exists" given the rows whose name
\* matches the new name
exists_check(c, loc, rows) ==
    IF Cardinality(rows) > 1 THEN Raise(MultipleResultsFound)
    ELSE IF rows # {} THEN Return(AlreadyExists(c))
    ELSE IF c.tool = "create_project"
    THEN Goto("flush", [loc EXCEPT !.new = new_row(c, <<>>), !.added = TRUE])
    ELSE Goto("commit", [loc EXCEPT !.new = new_row(c, <<>>), !.added = TRUE])

\* create_project, create_topic: the SELECT ... WHERE name ILIKE new_name
\* returns, or fails on a pattern the store rejects; the new row is added to
\* the session
ExistsCheck(p) ==
    /\ inv[p].pc \in {"cp_check", "ctp_check"}
    /\ LET c    == inv[p].call
           name == IF c.tool = "create_project" THEN c.args.project_name
                   ELSE c.args.topic_name
       IN  Step(p, IF \E r \in db[NewTable(c.tool)] : ilike(r.name, name) = <<>>
                   THEN Raise(LikeEscapeError)
                   ELSE exists_check(c, inv[p].loc,
                                     {r \in db[NewTable(c.tool)] :
                                         ilike_holds(r.name, name)}))
    /\ UNCHANGED <<serial, member_cache, member_first_name_index, cache_loaded,
                   ncalls, cache_loads, query, answer>>

\* the outcome of "find or create topic" given the topics whose name holds
\* topic_name
find_or_create_topic(c, loc, rows) ==
    IF Cardinality(rows) > 1 THEN Raise(MultipleResultsFound)
    ELSE IF rows # {} THEN Goto("check", [loc EXCEPT !.top = CHOOSE r \in rows : TRUE])
    ELSE Goto("flush", [loc EXCEPT !.new = new_row(c, <<>>), !.added = TRUE])

\* add_topic_to_meeting: the SELECT of the topic returns
TopicLookup(p) ==
    /\ inv[p].pc = "atm_topic"
    /\ LET c == inv[p].call
       IN  Step(p, find_or_create_topic(c, inv[p].loc,
                      {r \in db.topic : ilike_contains(r.name, c.args.topic_name)}))
    /\ UNCHANGED <<serial, member_cache, member_first_name_index, cache_loaded,
                   ncalls, cache_loads, query, answer>>

\* "avoid duplicates if their name was also in assigned_to"
add_current_member(ms, current) ==
    IF \E i \in DOMAIN ms : ms[i].id = current.id THEN ms ELSE Append(ms, current)

\* the envelope of a caller whose identity matches no person
NotLinked(c) ==
    CASE c.tool = "create_task" ->
            [error |-> "Could not find your member record to assign this task. Please contact an admin to link your Discord account."]
      [] c.tool = "get_my_identity" ->
            [error |-> "Could not find your member record. Your Discord account may not be linked in the committee table."]
      [] c.tool = "get_my_tasks" ->
            [error |-> "Could not find your member record. Please contact an admin to link your Discord account."]
      [] c.tool = "get_missed_meetings" ->
            [error |-> "Could not find your member record."]

\* what the tool does with the member get_member_by_discord_id returned
with_current_member(c, loc, member) ==
    CASE c.tool = "create_task" ->
            Goto("flush",
                 [loc EXCEPT !.ms = add_current_member(loc.ms, member),
                             !.new = new_row(c, loc.deadline), !.added = TRUE])
      [] c.tool = "get_my_identity" ->
            Return([message |-> "You are " \o member.name \o " in the society.",
                    member  |-> member])
      [] c.tool \in {"get_my_tasks", "get_missed_meetings"} ->
            Goto("report", [loc EXCEPT !.m = member])

\* get_member_by_discord_id and its caller, given the rows of the person
\* table with the discord_id
current_member(c, loc, rows) ==
    IF Cardinality(rows) > 1 THEN Raise(MultipleResultsFound)
    ELSE IF rows = {} THEN Return(NotLinked(c))
    ELSE with_current_member(c, loc, member_dict(CHOOSE r \in rows : TRUE))

\* create_task, get_my_tasks, get_my_identity, get_missed_meetings: the
\* SELECT of get_member_by_discord_id returns the caller's member; the tool
\* goes on after the session of get_member_by_discord_id is closed
CurrentMember(p) ==
    /\ inv[p].pc = "ct_me"
    /\ StepClosing(p, current_member(inv[p].call, inv[p].loc,
                               {db.committee[i] : i \in
                                   {j \in DOMAIN db.committee :
                                       db.committee[j].discord_id = inv[p].call.user}}))
    /\ UNCHANGED <<serial, member_cache, member_first_name_index, cache_loaded,
                   ncalls, cache_loads, query, answer>>

\* a store whose transactions read the rows another transaction has inserted
\* and not committed
read_uncommitted(d, tab, row, pl) ==
    [d EXCEPT ![tab] = @ \cup {row},
              !.heap[tab] = [i \in DOMAIN @ \cup {row.id} |->
                                IF i = row.id THEN pl ELSE @[i]]]

\* the isolation of the store, each invocation having "an independent
\* transaction scope": the rows the other transactions read, d being the
\* committed rows, while a transaction holds its INSERT of row into the table
\* tab at the place pl uncommitted
read_committed(d, tab, row, pl) == d

\* session.flush(): the INSERT of the new row takes the next id of the
\* table's sequence and the next place of the heap; create_task and
\* create_project then add one junction row per matched member to the session
Flush(p) ==
    /\ inv[p].pc = "flush"
    /\ LET c   == inv[p].call
           loc == inv[p].loc
           id  == serial[NewTable(c.tool)]
           row == [loc.new EXCEPT !.id = id]
       IN  /\ serial' = [serial EXCEPT ![NewTable(c.tool)] = id + 1,
                                        !.place = @ + 1]
           /\ db' = read_committed(db, NewTable(c.tool), row, serial.place)
           /\ inv' = [inv EXCEPT ![p] =
                        ProcAfter(p,
                                  IF c.tool = "add_topic_to_meeting"
                                  THEN Goto("check",
                                            [loc EXCEPT !.new = row, !.flushed = TRUE,
                                                        !.place = serial.place,
                                                        !.top = row])
                                  ELSE Goto("commit",
                                            [loc EXCEPT !.new = row, !.flushed = TRUE,
                                                        !.place = serial.place,
                                                        !.adds = [i \in DOMAIN loc.ms |->
                                                                    <<id, loc.ms[i].id>>]]),
                                  NoWrites, db)]
           /\ log' = log
    /\ UNCHANGED <<member_cache, member_first_name_index, cache_loaded,
                   ncalls, cache_loads, query, answer>>

\* a junction table without a key: every INSERT goes through
pk_absent(adds, rel) == FALSE

\* the primary key of a junction table is the pair: the INSERTs of a session
\* fail when two of them, or one of them and a committed row, are the same pair
pk_violation(adds, rel) ==
    \/ \E i, j \in DOMAIN adds : i # j /\ adds[i] = adds[j]
    \/ \E i \in DOMAIN adds : adds[i] \in rel

\* the rows of the junction table tab that q's open transaction has inserted
\* and not committed
Inserting(q, tab) ==
    IF inv[q].pc = "commit" /\ inv[q].loc.sent /\ LinkTable(inv[q].call.tool) = tab
    THEN Range(inv[q].loc.adds) ELSE {}

\* the session holds objects its flush has not sent to the store
Unflushed(loc) ==
    \/ loc.added /\ ~loc.flushed
    \/ loc.adds # <<>> /\ ~loc.sent

\* session.commit() first flushes the session: the INSERT of a new row takes
\* the next id of the table's sequence and the next place of the heap; the
\* INSERT of a pair that another open transaction has inserted into the same
\* junction table, or deleted from it, waits for that transaction; a
\* duplicate pair fails the statement, and session.commit() raises with
\* nothing committed
CommitFlush(p) ==
    /\ inv[p].pc = "commit"
    /\ Unflushed(inv[p].loc)
    /\ LET c      == inv[p].call
           loc    == inv[p].loc
           ntab   == NewTable(c.tool)
           link   == LinkTable(c.tool)
           fresh  == loc.added /\ ~loc.flushed
           failed == loc.adds # <<>> /\ pk_violation(loc.adds, db[link])
       IN  /\ \A q \in Procs \ {p} :
                 (Deleting(q, link) \cup Inserting(q, link)) \cap Range(loc.adds) = {}
           /\ serial' = IF fresh
                        THEN [serial EXCEPT ![ntab] = @ + 1, !.place = @ + 1]
                        ELSE serial
           /\ db' = IF fresh /\ ~failed
                    THEN read_committed(db, ntab, [loc.new EXCEPT !.id = serial[ntab]],
                                        serial.place)
                    ELSE db
           /\ inv' = [inv EXCEPT ![p] =
                        IF failed
                        THEN ProcAfter(p, Raise(IntegrityError), NoWrites, db)
                        ELSE [inv[p] EXCEPT
                                !.loc = [loc EXCEPT
                                           !.sent = TRUE,
                                           !.flushed = loc.added,
                                           !.new = IF fresh
                                                   THEN [@ EXCEPT !.id = serial[ntab]]
                                                   ELSE @,
                                           !.place = IF fresh THEN serial.place
                                                     ELSE @]]]
           /\ log' = log
    /\ UNCHANGED <<member_cache, member_first_name_index, cache_loaded,
                   ncalls, cache_loads, query, answer>>

\* session.commit(), the session flushed: COMMIT makes the rows the
\* transaction inserted and deleted the committed rows
Commit(p) ==
    /\ inv[p].pc = "commit"
    /\ ~Unflushed(inv[p].loc)
    /\ LET c     == inv[p].call
           loc   == inv[p].loc
           link  == LinkTable(c.tool)
           ntab  == NewTable(c.tool)
           wrote == [rows    |-> IF loc.added THEN {<<ntab, loc.new.id>>} ELSE {},
                     links   |-> {<<link, x[1], x[2]>> : x \in Range(loc.adds)},
                     unlinks |-> {<<link, x[1], x[2]>> : x \in Range(loc.del)},
                     updates |-> {}]
       IN  /\ db' = [t \in DOMAIN db |->
                       IF loc.added /\ t = ntab THEN db[t] \cup {loc.new}
                       ELSE IF loc.added /\ t = "heap"
                            THEN [db.heap EXCEPT ![ntab] =
                                    [i \in DOMAIN @ \cup {loc.new.id} |->
                                        IF i = loc.new.id THEN loc.place ELSE @[i]]]
                       ELSE IF t = link
                            THEN (db[t] \ Range(loc.del)) \cup Range(loc.adds)
                            ELSE db[t]]
           /\ inv' = [inv EXCEPT ![p] = ProcAfter(p, Return(Success(c, loc)), wrote, db')]
           /\ log' = log
    /\ UNCHANGED <<serial, member_cache, member_first_name_index, cache_loaded,
                   ncalls, cache_loads, query, answer>>

(***************************************************************************)
(* The retrieval tools and update_task_status.  The rows of the model hold *)
(* the columns the tools select on, search in and order by; the payloads   *)
(* hold the fields built from the names, the status and the deadline.  A   *)
(* tool awaits its SELECTs one by one, and each reads the rows committed   *)
(* when it runs.  The rows of a SELECT without ORDER BY, and the rows an   *)
(* ORDER BY leaves tied, come in the order of their places in the table    *)
(* selected from.  Names are compared by code point: the names of the      *)
(* stores are ordered alike by the collations in use.                      *)
(***************************************************************************)
\* task.task_status or 'incomplete'
Shown(status) ==
    IF status = <<>> \/ status = <<"">> THEN "incomplete" ELSE status[1]

\* str(n) for 0 <= n
RECURSIVE ToStr(_)
ToStr(n) ==
    IF n < 10 THEN Char("0123456789", n + 1)
    ELSE ToStr(n \div 10) \o Char("0123456789", (n % 10) + 1)

\* the sort key of a task_deadline under ASC NULLS LAST
DateKey(d) == IF d = <<>> THEN 99999999 ELSE d[1].y * 10000 + d[1].m * 100 + d[1].d

\* an ORDER BY on the primary key
TaskById(a, b) == a.id < b.id

\* ORDER BY task_deadline ASC NULLS LAST
TaskBefore(a, b) == DateKey(a.deadline) < DateKey(b.deadline)

\* ORDER BY name
NameBefore(a, b) == StrLess(a.name, b.name)

\* the sort key of an ingestion_timestamp under DESC, which puts NULL first
StampKey(ts) == IF ts = <<>> THEN 99999999 ELSE ts[1]

\* ORDER BY ingestion_timestamp DESC
IngestedAfter(a, b) ==
    StampKey(a.ingestion_timestamp) > StampKey(b.ingestion_timestamp)

\* the rows of S in the order Before, the rows it leaves tied in the order
\* of their places: the row at position i has i - 1 rows before it
SortedBy(S, Before(_, _), place) ==
    [i \in 1..Cardinality(S) |->
        CHOOSE x \in S :
            Cardinality({y \in S :
                            \/ Before(y, x)
                            \/ ~Before(x, y) /\ place[y.id] < place[x.id]}) = i - 1]

\* the two sides of a junction table
RightOf(rel, l) == {x[2] : x \in {y \in rel : y[1] = l}}
LeftOf(rel, r) == {x[1] : x \in {y \in rel : y[2] = r}}

\* the rows of a table a join selects: those with the ids, in scan order
RowsIn(rows, ids, place) == InScanOrder({r \in rows : r.id \in ids}, place)

NameList(rows) == [i \in DOMAIN rows |-> rows[i].name]

\* [{"name": t[0], "status": t[1] or 'incomplete'} for t in ...]
TaskItems(rows) ==
    [i \in DOMAIN rows |-> [name |-> rows[i].name, status |-> Shown(rows[i].status)]]

\* the rows of the person table
Members(d) == {d.committee[i] : i \in DOMAIN d.committee}

\* the place of each row of the person table, which is held in table order
PersonPlaces(d) ==
    [i \in Ids(Members(d)) |-> CHOOSE j \in DOMAIN d.committee : d.committee[j].id = i]

\* the tasks of get_my_tasks
MyTaskItems(rows) ==
    [i \in DOMAIN rows |->
        [task_id  |-> rows[i].id, name |-> rows[i].name,
         deadline |-> DateStr(rows[i].deadline), status |-> Shown(rows[i].status)]]

get_my_tasks(m, tasks) ==
    IF tasks = <<>>
    THEN [message |-> "You (" \o m.name \o ") have no tasks assigned.", tasks |-> <<>>]
    ELSE [message |-> "Found " \o ToStr(Len(tasks)) \o " task(s) for " \o m.name,
          tasks   |-> tasks]

\* the WHERE clause of get_all_tasks
StatusFilter(filter, rows) ==
    CASE filter = "complete" -> {t \in rows : t.status = <<"complete">>}
      [] filter = "incomplete" -> {t \in rows : t.status \in {<<"incomplete">>, <<>>}}
      [] OTHER -> rows

\* the tasks of get_all_tasks: the rows of its first SELECT, each with the
\* names the SELECT run for it returned
AllTaskItems(rows, names) ==
    [i \in DOMAIN rows |->
        [task_id  |-> rows[i].id, name |-> rows[i].name,
         deadline |-> DateStr(rows[i].deadline), status |-> Shown(rows[i].status),
         assigned_to |-> names[i]]]

get_all_tasks(filter, tasks) ==
    [message |-> "Found " \o ToStr(Len(tasks)) \o " task(s)"
                 \o (IF filter # "all" THEN " with status '" \o filter \o "'" ELSE ""),
     tasks   |-> tasks]

get_member_info(member, projects, tasks) ==
    [member_id  |-> member.id, name |-> member.name, discord_id |-> member.discord_id,
     projects   |-> projects,
     tasks      |-> tasks]

get_meeting_info(meeting, attendees, topics, tasks, projects) ==
    [meeting_id |-> meeting.id, name |-> meeting.name,
     attendees  |-> attendees,
     topics     |-> topics,
     tasks      |-> tasks,
     projects   |-> projects]

MeetingItems(rows) ==
    [i \in DOMAIN rows |-> [meeting_id |-> rows[i].id, name |-> rows[i].name]]

get_meetings_for_member(m, meetings) ==
    [message  |-> "Found " \o ToStr(Len(meetings)) \o " meeting(s) for " \o m.name,
     meetings |-> meetings]

\* get_missed_meetings: the meetings of all_meetings, in its order, that are
\* not in attended_ids
RECURSIVE NotAttended(_, _)
NotAttended(meetings, attended) ==
    IF meetings = <<>> THEN <<>>
    ELSE (IF Head(meetings).id \in attended THEN <<>> ELSE <<Head(meetings)>>)
         \o NotAttended(Tail(meetings), attended)

\* the missed meetings, each with the topic names the SELECT run for it
\* returned
MissedItems(rows, topics) ==
    [i \in DOMAIN rows |->
        [meeting_id |-> rows[i].id, name |-> rows[i].name,
         topics |-> topics[i]]]

get_missed_meetings(m, missed) ==
    IF missed = <<>>
    THEN [message |-> "You (" \o m.name \o ") have attended all meetings!",
          missed_meetings |-> <<>>]
    ELSE [message |-> "You missed " \o ToStr(Len(missed)) \o " meeting(s)",
          missed_meetings |-> missed]

ProjectTaskItems(rows) ==
    [i \in DOMAIN rows |->
        [name |-> rows[i].name, status |-> Shown(rows[i].status),
         deadline |-> DateStr(rows[i].deadline)]]

NameItems(rows) == [i \in DOMAIN rows |-> [name |-> rows[i].name]]

get_project_info(project, members, tasks) ==
    [project_id   |-> project.id, name |-> project.name,
     team_members |-> members,
     tasks        |-> tasks]

\* the projects of get_all_projects: the rows of its first SELECT, each with
\* the count the SELECT run for it returned
ProjectItems(rows, counts) ==
    [i \in DOMAIN rows |->
        [project_id |-> rows[i].id, name |-> rows[i].name,
         member_count |-> counts[i]]]

get_all_projects(projects) ==
    [message  |-> "Found " \o ToStr(Len(projects)) \o " project(s)",
     projects |-> projects]

MemberItems(rows) ==
    [i \in DOMAIN rows |-> [member_id |-> rows[i].id, name |-> rows[i].name]]

get_all_members(members) ==
    [message |-> "Found " \o ToStr(Len(members)) \o " member(s)",
     members |-> members]

get_topic_info(topic, meetings) ==
    [topic_id |-> topic.id, name |-> topic.name,
     discussed_in_meetings |-> meetings]

\* .limit(10) of the SELECTs of search_database
SearchLimit == 10

\* the sections of search_database, in the order of its if statements
SearchOrder == <<"members", "meetings", "projects", "tasks", "topics">>

\* the sections search_in selects, in that order
RECURSIVE Selected(_, _)
Selected(kinds, search_in) ==
    IF kinds = <<>> THEN <<>>
    ELSE (IF Head(kinds) \in SearchKinds(search_in) THEN <<Head(kinds)>> ELSE <<>>)
         \o Selected(Tail(kinds), search_in)

SearchSections(search_in) == Selected(SearchOrder, search_in)

\* the table each section searches
TableOf(d, kind) ==
    CASE kind = "members" -> Members(d)
      [] kind = "meetings" -> d.meeting
      [] kind = "projects" -> d.project
      [] kind = "tasks" -> d.task
      [] kind = "topics" -> d.topic

\* the place of each row of the table a section searches
PlacesOf(d, kind) ==
    CASE kind = "members" -> PersonPlaces(d)
      [] kind = "meetings" -> d.heap.meeting
      [] kind = "projects" -> d.heap.project
      [] kind = "tasks" -> d.heap.task
      [] kind = "topics" -> d.heap.topic

\* the nullable columns the or_ of each section searches next to the name
SearchColumns(kind) ==
    CASE kind = "members" -> {"email", "role"}
      [] kind = "meetings" -> {"summary"}
      [] OTHER -> {"description"}

\* the or_ of a section holds of the row: the name, or a column that is not
\* NULL, contains q
SearchHit(r, kind, q) ==
    \/ ilike_contains(r.name, q)
    \/ \E col \in SearchColumns(kind) : r[col] # <<>> /\ ilike_contains(r[col][1], q)

\* SELECT ... WHERE or_(...) LIMIT 10: the first rows of the scan
SearchRows(d, kind, q) ==
    Take(InScanOrder({r \in TableOf(d, kind) : SearchHit(r, kind, q)},
                     PlacesOf(d, kind)),
         SearchLimit)

SearchItems(kind, rows) ==
    IF kind = "tasks" THEN TaskItems(rows) ELSE NameItems(rows)

\* results: one key for each section searched, its list empty or not
SearchResultsAll(kinds, got) ==
    [k \in Range(kinds) |->
        SearchItems(k, got[CHOOSE i \in DOMAIN kinds : kinds[i] = k])]

\* results: one key for each section whose SELECT returned rows
SearchResults(kinds, got) ==
    [k \in {kinds[i] : i \in {j \in DOMAIN kinds : got[j] # <<>>}} |->
        SearchItems(k, got[CHOOSE i \in DOMAIN kinds : kinds[i] = k])]

SearchEnvelope(q, results) ==
    IF DOMAIN results = {} THEN [message |-> "No results found for '" \o q \o "'"]
    ELSE [message |-> "Search results for '" \o q \o "'", results |-> results]

search_database(q, search_in, got) ==
    SearchEnvelope(q, SearchResults(SearchSections(search_in), got))

\* the joins of get_meeting_info, in the order the tool runs them
meeting_select(d, meeting, n) ==
    CASE n = 0 -> NameList(RowsIn(Members(d), RightOf(d.meeting_members, meeting.id),
                                  PersonPlaces(d)))
      [] n = 1 -> NameList(RowsIn(d.topic, RightOf(d.meeting_topics, meeting.id),
                                  d.heap.topic))
      [] n = 2 -> TaskItems(RowsIn(d.task, RightOf(d.meeting_tasks, meeting.id),
                                   d.heap.task))
      [] OTHER -> NameList(RowsIn(d.project, RightOf(d.meeting_projects, meeting.id),
                                  d.heap.project))

\* the SELECTs of get_missed_meetings: all meetings, the ids of the meetings
\* attended, and the topic names of each missed meeting
missed_select(d, m, got) ==
    CASE Len(got) = 0 -> SortedBy(d.meeting, IngestedAfter, d.heap.meeting)
      [] Len(got) = 1 -> LeftOf(d.meeting_members, m.id)
      [] OTHER ->
            NameList(RowsIn(d.topic,
                            RightOf(d.meeting_topics,
                                    NotAttended(got[1], got[2])[Len(got) - 1].id),
                            d.heap.topic))

\* the result of the next SELECT of a retrieval tool on the committed rows d,
\* after its member (loc.m) or its row (loc.ent) was found and the SELECTs
\* before it returned loc.got
select_next(c, loc, d) ==
    CASE c.tool = "get_my_tasks" ->
            SortedBy({t \in d.task : t.id \in LeftOf(d.task_members, loc.m.id)},
                     TaskBefore, d.heap.task)
      [] c.tool = "get_all_tasks" ->
            IF loc.got = <<>>
            THEN SortedBy(StatusFilter(Get(c.args, "status_filter", "all"), d.task),
                          TaskBefore, d.heap.task)
            ELSE NameList(RowsIn(Members(d),
                                 RightOf(d.task_members, loc.got[1][Len(loc.got)].id),
                                 PersonPlaces(d)))
      [] c.tool = "get_member_info" ->
            IF loc.got = <<>>
            THEN NameList(RowsIn(d.project, LeftOf(d.project_members, loc.m.id),
                                 d.heap.project))
            ELSE TaskItems(RowsIn(d.task, LeftOf(d.task_members, loc.m.id),
                                  d.heap.task))
      [] c.tool = "get_meeting_info" -> meeting_select(d, loc.ent, Len(loc.got))
      [] c.tool = "get_meetings_for_member" ->
            SortedBy({g \in d.meeting : g.id \in LeftOf(d.meeting_members, loc.m.id)},
                     IngestedAfter, d.heap.meeting)
      [] c.tool = "get_missed_meetings" -> missed_select(d, loc.m, loc.got)
      [] c.tool = "get_project_info" ->
            IF loc.got = <<>>
            THEN NameItems(RowsIn(Members(d), RightOf(d.project_members, loc.ent.id),
                                  PersonPlaces(d)))
            ELSE ProjectTaskItems(RowsIn(d.task, RightOf(d.project_tasks, loc.ent.id),
                                         d.heap.task))
      [] c.tool = "get_all_projects" ->
            IF loc.got = <<>>
            THEN SortedBy(d.project, NameBefore, d.heap.project)
            ELSE Cardinality(RightOf(d.project_members, loc.got[1][Len(loc.got)].id))
      [] c.tool = "get_all_members" ->
            SortedBy(Members(d), NameBefore, PersonPlaces(d))
      [] c.tool = "get_topic_info" ->
            NameItems(RowsIn(d.meeting, LeftOf(d.meeting_topics, loc.ent.id),
                             d.heap.meeting))
      [] c.tool = "search_database" ->
            SearchRows(d, SearchSections(Get(c.args, "search_in", "all"))[Len(loc.got) + 1],
                       c.args.search_query)

\* the number of SELECTs the tool runs, given the results got of those run
selects(c, got) ==
    CASE c.tool \in {"get_all_tasks", "get_all_projects"} -> 1 + Len(got[1])
      [] c.tool \in {"get_member_info", "get_project_info"} -> 2
      [] c.tool = "get_meeting_info" -> 4
      [] c.tool = "get_missed_meetings" ->
            IF Len(got) < 2 THEN 2 ELSE 2 + Len(NotAttended(got[1], got[2]))
      [] c.tool = "search_database" ->
            Len(SearchSections(Get(c.args, "search_in", "all")))
      [] OTHER -> 1

\* the payload of a retrieval tool from the results of its SELECTs
Payload(c, loc) ==
    CASE c.tool = "get_my_tasks" -> get_my_tasks(loc.m, MyTaskItems(loc.got[1]))
      [] c.tool = "get_all_tasks" ->
            get_all_tasks(Get(c.args, "status_filter", "all"),
                          AllTaskItems(loc.got[1], Tail(loc.got)))
      [] c.tool = "get_member_info" -> get_member_info(loc.m, loc.got[1], loc.got[2])
      [] c.tool = "get_meeting_info" ->
            get_meeting_info(loc.ent, loc.got[1], loc.got[2], loc.got[3], loc.got[4])
      [] c.tool = "get_meetings_for_member" ->
            get_meetings_for_member(loc.m, MeetingItems(loc.got[1]))
      [] c.tool = "get_missed_meetings" ->
            get_missed_meetings(loc.m,
                MissedItems(NotAttended(loc.got[1], loc.got[2]),
                            SubSeq(loc.got, 3, Len(loc.got))))
      [] c.tool = "get_project_info" ->
            get_project_info(loc.ent, loc.got[1], loc.got[2])
      [] c.tool = "get_all_projects" ->
            get_all_projects(ProjectItems(loc.got[1], Tail(loc.got)))
      [] c.tool = "get_all_members" -> get_all_members(MemberItems(loc.got[1]))
      [] c.tool = "get_topic_info" -> get_topic_info(loc.ent, loc.got[1])
      [] c.tool = "search_database" ->
            search_database(c.args.search_query, Get(c.args, "search_in", "all"),
                            loc.got)

\* what a retrieval tool does once a SELECT has returned: it awaits its next
\* SELECT, or builds its payload and returns
report(c, loc) ==
    IF Len(loc.got) < selects(c, loc.got) THEN Goto("report", loc)
    ELSE Return(Payload(c, loc))

\* the next SELECT of a retrieval tool returns
Report(p) ==
    /\ inv[p].pc = "report"
    /\ Step(p, report(inv[p].call,
                      [inv[p].loc EXCEPT
                         !.got = Append(@, select_next(inv[p].call, inv[p].loc, db))]))
    /\ UNCHANGED <<serial, member_cache, member_first_name_index, cache_loaded,
                   ncalls, cache_loads, query, answer>>

\* get_member_info: the SELECT of the matched member by id returns
MemberById(p) ==
    /\ inv[p].pc = "gmi_member"
    /\ LET rows == {r \in Members(db) : r.id = inv[p].loc.m.id}
       IN  Step(p, IF rows = {} THEN Return([error |-> "Member record not found"])
                   ELSE Goto("report",
                             [inv[p].loc EXCEPT !.m = member_dict(CHOOSE r \in rows : TRUE)]))
    /\ UNCHANGED <<serial, member_cache, member_first_name_index, cache_loaded,
                   ncalls, cache_loads, query, answer>>

\* the envelope update_task_status returns after its commit
StatusUpdated(task, new_status) ==
    [success    |-> TRUE,
     message    |-> "Task '" \o task.name \o "' status updated from '"
                    \o Shown(task.status) \o "' to '" \o new_status \o "'",
     task_id    |-> task.id, task_name |-> task.name,
     old_status |-> Shown(task.status), new_status |-> new_status]

\* the task rows q's open transaction has updated and not committed
Updating(q) ==
    IF inv[q].pc = "uts_commit" /\ inv[q].loc.sent THEN {inv[q].loc.ent.id} ELSE {}

\* update_task_status: task.task_status = new_status and session.commit();
\* the flush sends an UPDATE when the value differs from the one the session
\* loaded: the store writes the new version of the row to the next place of
\* the heap, after any other open transaction that updated the row
UpdateFlush(p) ==
    /\ inv[p].pc = "uts_commit"
    /\ ~inv[p].loc.sent
    /\ inv[p].loc.ent.status # <<inv[p].call.args.new_status>>
    /\ \A q \in Procs \ {p} : inv[p].loc.ent.id \notin Updating(q)
    /\ serial' = [serial EXCEPT !.place = @ + 1]
    /\ inv' = [inv EXCEPT ![p] =
                 [inv[p] EXCEPT !.loc = [@ EXCEPT !.sent = TRUE,
                                                  !.place = serial.place]]]
    /\ UNCHANGED <<db, log, member_cache, member_first_name_index, cache_loaded,
                   ncalls, cache_loads, query, answer>>

\* update_task_status: COMMIT makes the new version of the row, if one was
\* written, the committed row
UpdateCommit(p) ==
    /\ inv[p].pc = "uts_commit"
    /\ LET c    == inv[p].call
           loc  == inv[p].loc
           task == loc.ent
       IN  /\ loc.sent \/ task.status = <<c.args.new_status>>
           /\ db' = IF loc.sent
                    THEN [db EXCEPT !.task =
                            {IF r.id = task.id
                             THEN [r EXCEPT !.status = <<c.args.new_status>>] ELSE r :
                                r \in db.task},
                                   !.heap.task[task.id] = loc.place]
                    ELSE db
           /\ inv' = [inv EXCEPT ![p] =
                        ProcAfter(p, Return(StatusUpdated(task, c.args.new_status)),
                                  [NoWrites EXCEPT !.updates =
                                      IF loc.sent THEN {<<"task", task.id>>} ELSE {}],
                                  db')]
           /\ log' = log
    /\ UNCHANGED <<serial, member_cache, member_first_name_index, cache_loaded,
                   ncalls, cache_loads, query, answer>>

\* the exit of "async with self.async_session()": the close of the session
\* returns; the tool returns or raises, and execute() with it, or (after
\* get_member_by_discord_id) goes on to its next await
Close(p) ==
    /\ inv[p].pc = "close"
    /\ LET then == inv[p].ret[1]
       IN  /\ inv' = [inv EXCEPT ![p] =
                        IF then.out.kind = "goto"
                        THEN [inv[p] EXCEPT !.pc = then.out.pc, !.loc = then.out.loc,
                                            !.ret = <<>>]
                        ELSE Idle]
           /\ log' = LogAfter(p, then.out, then.wrote, then.post)
    /\ UNCHANGED <<db, serial, member_cache, member_first_name_index, cache_loaded,
                   ncalls, cache_loads, query, answer>>

NoQuery == [name |-> "", base |-> ""]
NoAnswer == [member |-> NoMember, step |-> "unset"]

Init ==
    /\ db \in Stores(InitialRows)
    /\ serial = InitialSerial
    /\ member_cache = <<>>
    /\ member_first_name_index = <<>>
    /\ cache_loaded = FALSE
    /\ inv = [p \in Procs |-> Idle]
    /\ log = <<>>
    /\ ncalls = 0
    /\ cache_loads = 0
    /\ query = NoQuery
    /\ answer = NoAnswer

Next ==
    \/ \E p \in Procs, c \in Calls : Invoke(p, c)
    \/ \E p \in Procs : EnsureCacheFetch(p)
    \/ \E p \in Procs : EnsureCacheDone(p)
    \/ \E p \in Procs : FindById(p)
    \/ \E p \in Procs : FindByName(p)
    \/ \E p \in Procs : LinkCheck(p)
    \/ \E p \in Procs : RemoveDelete(p)
    \/ \E p \in Procs : ExistsCheck(p)
    \/ \E p \in Procs : TopicLookup(p)
    \/ \E p \in Procs : CurrentMember(p)
    \/ \E p \in Procs : Flush(p)
    \/ \E p \in Procs : CommitFlush(p)
    \/ \E p \in Procs : Commit(p)
    \/ \E p \in Procs : Close(p)

Spec == Init /\ [][Next]_vars

(***************************************************************************)
(* The resolver on its own: a person table is drawn, _ensure_cache loads   *)
(* it once, and _fuzzy_match_member is given names, plain or followed by a *)
(* parenthetical commentary and trailing punctuation.                      *)
(***************************************************************************)
\* the member_name values of the person tables drawn
NamePool == {"Sam Li", "Sam Ro", "Al Jr.", "Al Jr", "J. Ro", "Sam", ""}

\* the names given to _fuzzy_match_member
QueryPool == NamePool \cup {"sam", "J.", "al", "SAM LI", "Bob", "Sam L", " Sam Li "}

\* the commentaries and the trailing characters added to a name
Comments == {"", "x", "a (b)"}
Trails == {"", ".", " ,;- "}

\* the person table whose rows hold the names, in order
Table(names) == [i \in DOMAIN names |-> Person(i, names[i], 10 + i)]

NameLists == UNION {[1..n -> NamePool] : n \in 0..MaxPersons}

InitResolve ==
    /\ db \in {[InitialDb EXCEPT !.committee = Table(names)] : names \in NameLists}
    /\ serial = InitialSerial
    /\ member_cache = <<>>
    /\ member_first_name_index = <<>>
    /\ cache_loaded = FALSE
    /\ inv = [p \in Procs |-> Idle]
    /\ log = <<>>
    /\ ncalls = 0
    /\ cache_loads = 0
    /\ query = NoQuery
    /\ answer = NoAnswer

\* _ensure_cache() is called with no invocation in flight and runs to the
\* await of its SELECT
ResolveLoad ==
    /\ ~cache_loaded
    /\ cache_loads = 0
    /\ inv[1].pc = "idle"
    /\ inv' = [inv EXCEPT ![1] = [Idle EXCEPT !.pc = "ec_execute"]]
    /\ UNCHANGED <<db, serial, member_cache, member_first_name_index, cache_loaded,
                   log, ncalls, cache_loads, query, answer>>

\* the SELECT returns and the loop fills the two indexes; the exit of the
\* "async with" block then awaits the close of the session
ResolveFetch == EnsureCacheFetch(1)

\* the session is closed after the loop ran to its end:
\* self._cache_loaded = True
ResolveLoaded ==
    /\ inv[1].pc = "ec_close"
    /\ inv[1].call = NoCall
    /\ cache_loaded' = TRUE
    /\ inv' = [inv EXCEPT ![1] = Idle]
    /\ UNCHANGED <<db, serial, member_cache, member_first_name_index,
                   log, ncalls, cache_loads, query, answer>>

\* self._fuzzy_match_member(name), asked about the name base; a behaviour
\* resolves one name
Resolve(name, base) ==
    /\ cache_loaded
    /\ answer = NoAnswer
    /\ query' = [name |-> name, base |-> base]
    /\ answer' = match_member(name, member_cache, member_first_name_index)
    /\ UNCHANGED <<db, serial, member_cache, member_first_name_index, cache_loaded,
                   inv, log, ncalls, cache_loads>>

ResolveName(n) == Resolve(n, n)

\* the name n followed by " (c)" and the trailing characters t
Noisy(n, c, t) == n \o " (" \o c \o ")" \o t

ResolveNoisy(n, c, t) == Resolve(Noisy(n, c, t), n)

NextResolve ==
    \/ ResolveLoad
    \/ ResolveFetch
    \/ ResolveLoaded
    \/ \E n \in QueryPool : ResolveName(n)
    \/ \E n \in QueryPool, c \in Comments, t \in Trails : ResolveNoisy(n, c, t)

SpecResolve == InitResolve /\ [][NextResolve]_vars

(***************************************************************************)
(* The retrieval tools, update_task_status and the lookups of the other    *)
(* tools, over a store as the transcript pipeline leaves it: tasks with    *)
(* and without a status, names that share substrings, names that hold the  *)
(* digits of another row's id.                                             *)
(***************************************************************************)
Deadline(y, m, d) == <<[y |-> y, m |-> m, d |-> d]>>

QueryRows ==
    [committee       |-> <<[Person(1, "Sam Li", 11) EXCEPT !.role = <<"Fixer">>],
                           [Person(2, "Sam Ro", 12) EXCEPT !.email = <<"sam@x.org">>],
                           Person(3, "Al Jo", 13)>>,
     task            |-> {TaskRow(1, "Fix bug", <<>>, Deadline(2024, 3, 1)),
                          TaskRow(2, "Fix doc", <<"incomplete">>, <<>>),
                          TaskRow(3, "Fix ci", <<"complete">>, <<>>),
                          TaskRow(4, "Fix ui", <<"done">>, Deadline(2024, 2, 1)),
                          [TaskRow(5, "Fix db", <<"">>, <<>>) EXCEPT !.description = <<"zzz">>],
                          TaskRow(6, "Fix api", <<>>, Deadline(2024, 1, 15)),
                          TaskRow(7, "Fix v2", <<"In Progress">>, <<>>),
                          TaskRow(8, "Fix w", <<"complete">>, <<>>),
                          TaskRow(9, "Fix x", <<"complete">>, <<>>),
                          TaskRow(10, "Fix y", <<"complete">>, <<>>),
                          TaskRow(11, "Fix z", <<"complete">>, <<>>)},
     project         |-> {Row(1, "Web"), Row(2, "Web 1"),
                          [Row(3, "App") EXCEPT !.description = <<"mobile">>]},
     topic           |-> {Row(1, "Budget"),
                          [Row(2, "Budget 1") EXCEPT !.description = <<"prefix">>]},
     meeting         |-> {MeetingRow(1, "Kickoff 2", <<1>>),
                          [MeetingRow(2, "Retro", <<2>>) EXCEPT !.summary = <<"fix list">>],
                          MeetingRow(3, "Sync", <<2>>)},
     task_members    |-> {<<1, 1>>, <<2, 2>>, <<4, 1>>},
     project_members |-> {<<1, 1>>, <<1, 3>>},
     meeting_topics  |-> {<<1, 1>>, <<3, 1>>, <<3, 2>>},
     meeting_members |-> {<<1, 1>>, <<2, 3>>, <<3, 3>>},
     meeting_tasks   |-> {<<1, 1>>, <<1, 4>>},
     meeting_projects |-> {<<1, 1>>},
     project_tasks   |-> {<<1, 4>>, <<1, 5>>}]

QueryDb == Laid(QueryRows, "asc")

QuerySerial == [task |-> 12, project |-> 4, topic |-> 3, place |-> HeapTop]

QueryCalls ==
    {Call("get_my_tasks", <<>>, 11),
     Call("get_my_tasks", <<>>, 0),
     Call("get_my_tasks", <<>>, 99),
     Call("get_my_identity", <<>>, 12),
     Call("get_my_identity", <<>>, 99),
     Call("get_missed_meetings", <<>>, 12),
     Call("get_missed_meetings", <<>>, 0),
     Call("get_current_datetime", <<>>, 0),
     Call("get_all_tasks", <<>>, 0),
     Call("get_all_tasks", [status_filter |-> "incomplete"], 0),
     Call("get_all_tasks", [status_filter |-> "complete"], 0),
     Call("get_all_tasks", [status_filter |-> "all"], 0),
     Call("get_member_info", [member_name |-> "sam li"], 0),
     Call("get_member_info", <<>>, 11),
     [tool |-> "get_member_info", args |-> [member_name |-> "7"],
      user |-> 0, nonstr |-> {"member_name"}],
     Call("get_meeting_info", [meeting_identifier |-> "2"], 0),
     Call("get_meeting_info", [meeting_identifier |-> "o"], 0),
     Call("get_meeting_info", [meeting_identifier |-> "kick"], 0),
     Call("get_meetings_for_member", [member_name |-> "Al"], 0),
     Call("get_project_info", [project_name |-> "1"], 0),
     Call("get_project_info", [project_name |-> "web"], 0),
     Call("get_project_info", [project_name |-> "e"], 0),
     Call("get_all_projects", <<>>, 0),
     Call("get_all_members", <<>>, 0),
     Call("get_topic_info", [topic_name |-> "Bud"], 0),
     Call("get_topic_info", [topic_name |-> "1"], 0),
     Call("get_topic_info", [topic_name |-> "zzz"], 0),
     Call("search_database", [search_query |-> "fix"], 0),
     Call("search_database", [search_query |-> "zzz", search_in |-> "tasks"], 0),
     Call("search_database", [search_query |-> "qq", search_in |-> "topics"], 0),
     Call("search_database", [search_query |-> "E", search_in |-> "projects"], 0),
     Call("search_database", [search_query |-> "fix", search_in |-> "nothing"], 0),
     Call("update_task_status", [task_identifier |-> "2", new_status |-> "complete"], 0),
     Call("update_task_status", [task_identifier |-> "ui", new_status |-> "incomplete"], 0),
     Call("update_task_status", [task_identifier |-> "Fix", new_status |-> "complete"], 0),
     Call("update_task_status", [task_identifier |-> "4", new_status |-> "finished"], 0),
     Call("create_task", [task_name |-> "New", deadline |-> "soon"], 0),
     Call("create_task", [task_name |-> "New", assign_to_current_user |-> TRUE], 0),
     Call("create_task", [task_name |-> "New", assign_to_current_user |-> TRUE], 99),
     Call("create_task", [task_name |-> "New", assigned_to |-> <<"Sam Li", "Al Jo">>], 0),
     Call("create_task", [task_name |-> "New", assigned_to |-> <<"Al Jo", "Al Jo">>], 0),
     Call("create_project", [project_name |-> "Lab", team_members |-> <<"Sam Li", "Sam Ro">>], 0),
     Call("assign_member_to_task", [task_identifier |-> "2", member_name |-> "Al"], 0),
     Call("assign_member_to_task", [task_identifier |-> "Fix", member_name |-> "Al"], 0),
     Call("remove_member_from_task", [task_identifier |-> "1", member_name |-> "Sam Li"], 0),
     Call("remove_member_from_task", [task_identifier |-> "Fix", member_name |-> "Sam Li"], 0),
     Call("add_member_to_project", [project_name |-> "e", member_name |-> "Sam Li"], 0),
     Call("add_member_to_project", [project_name |-> "web", member_name |-> "Sam Ro"], 0),
     Call("add_topic_to_meeting", [meeting_identifier |-> "2", topic_name |-> "Bud"], 0),
     Call("create_topic", [topic_name |-> "budget"], 0),
     Call("update_task_status", [task_identifier |-> "2"], 0),
     Call("create_task", [assigned_to |-> <<"Al Jo">>, deadline |-> "2024-03-01"], 13),
     Call("create_project", [team_members |-> <<"Al Jo">>], 0),
     Call("add_topic_to_meeting", [meeting_identifier |-> "2"], 0),
     Call("get_my_task", [task_identifier |-> "1"], 11),
     Call("delete_everything", <<>>, 0)}

InitQuery ==
    /\ db \in Stores(QueryRows)
    /\ serial = QuerySerial
    /\ member_cache = <<>>
    /\ member_first_name_index = <<>>
    /\ cache_loaded = FALSE
    /\ inv = [p \in Procs |-> Idle]
    /\ log = <<>>
    /\ ncalls = 0
    /\ cache_loads = 0
    /\ query = NoQuery
    /\ answer = NoAnswer

NextQuery ==
    \/ \E p \in Procs, c \in QueryCalls : Invoke(p, c)
    \/ \E p \in Procs : EnsureCacheFetch(p)
    \/ \E p \in Procs : EnsureCacheDone(p)
    \/ \E p \in Procs : FindById(p)
    \/ \E p \in Procs : FindByName(p)
    \/ \E p \in Procs : LinkCheck(p)
    \/ \E p \in Procs : RemoveDelete(p)
    \/ \E p \in Procs : ExistsCheck(p)
    \/ \E p \in Procs : TopicLookup(p)
    \/ \E p \in Procs : CurrentMember(p)
    \/ \E p \in Procs : MemberById(p)
    \/ \E p \in Procs : Report(p)
    \/ \E p \in Procs : UpdateFlush(p)
    \/ \E p \in Procs : UpdateCommit(p)
    \/ \E p \in Procs : Flush(p)
    \/ \E p \in Procs : CommitFlush(p)
    \/ \E p \in Procs : Commit(p)
    \/ \E p \in Procs : Close(p)

SpecQuery == InitQuery /\ [][NextQuery]_vars

(***************************************************************************)
(* The person table changing under a running process: another client of   *)
(* the database adds a person or renames one while the tools that match a *)
(* member name are invoked.                                                *)
(***************************************************************************)
\* the person another client adds, and the name it gives to person 3
AddedPerson == Person(4, "Kim Wu", 14)
RenamedTo == "Alan Jo"

\* every running invocation has seen the store change under it
Disturbed == [q \in Procs |-> [inv[q] EXCEPT !.solo = FALSE]]

\* another client commits an INSERT into the person table
PersonAdded ==
    /\ \A i \in DOMAIN db.committee : db.committee[i].id # AddedPerson.id
    /\ db' = [db EXCEPT !.committee = Append(@, AddedPerson)]
    /\ inv' = Disturbed
    /\ UNCHANGED <<serial, member_cache, member_first_name_index, cache_loaded,
                   log, ncalls, cache_loads, query, answer>>

\* another client commits an UPDATE of the name of person 3
PersonRenamed ==
    /\ \E i \in DOMAIN db.committee :
          /\ db.committee[i].id = 3
          /\ db.committee[i].name # RenamedTo
          /\ db' = [db EXCEPT !.committee[i].name = RenamedTo]
    /\ inv' = Disturbed
    /\ UNCHANGED <<serial, member_cache, member_first_name_index, cache_loaded,
                   log, ncalls, cache_loads, query, answer>>

StaleCalls ==
    {Call("get_member_info", [member_name |-> "Kim Wu"], 0),
     Call("get_member_info", [member_name |-> "alan"], 0),
     Call("get_meetings_for_member", [member_name |-> "Al Jo"], 0),
     Call("get_meetings_for_member", [member_name |-> "sam"], 0)}

NextStale ==
    \/ \E p \in Procs, c \in StaleCalls : Invoke(p, c)
    \/ \E p \in Procs : EnsureCacheFetch(p)
    \/ \E p \in Procs : EnsureCacheDone(p)
    \/ \E p \in Procs : MemberById(p)
    \/ \E p \in Procs : Report(p)
    \/ \E p \in Procs : Close(p)
    \/ PersonAdded
    \/ PersonRenamed

SpecStale == Init /\ [][NextStale]_vars

(***************************************************************************)
(* Properties of the tool router and of the mutation tools, over the log   *)
(* of the invocations that returned.                                       *)
(***************************************************************************)
IsError(env) == "error" \in DOMAIN env

IsSuccess(env) == "success" \in DOMAIN env /\ env.success = TRUE

\* an envelope is a record with the error field, a string, alone or with
\* the matches list of an ambiguous match, or a record of success fields
\* without an error field, whose success field, if it has one, is true
WellFormed(env) ==
    \/ /\ IsError(env)
       /\ env.error \in STRING
       /\ DOMAIN env \subseteq {"error", "matches"}
    \/ /\ ~IsError(env)
       /\ DOMAIN env # {}
       /\ "success" \in DOMAIN env => env.success = TRUE

\* the invocation resolved the two ends of the link it is about
ResolvedPair(e) ==
    /\ e.call.tool \in {"assign_member_to_task", "remove_member_from_task",
                        "add_member_to_project", "add_topic_to_meeting"}
    /\ e.loc.ent # NoRow
    /\ IF e.call.tool = "add_topic_to_meeting"
       THEN e.loc.top # NoRow ELSE e.loc.m # NoMember

\* C1: every invocation of ToolExecutor.execute that returned, whatever the
\* tool name (the twenty-one tools and names that are no tool), the arguments
\* and the caller, returned a well-formed envelope (the error field, or
\* success fields and no error field), and when the dispatch or the tool
\* raised an exception with message msg it returned the envelope
\* {error: 'Tool execution failed: msg'}.
C1_ExecuteEnvelope ==
    \A i \in DOMAIN log :
        /\ WellFormed(log[i].result)
        /\ log[i].raised # <<>> =>
              log[i].result =
                 [error |-> "Tool execution failed: " \o log[i].raised[1]]

\* scalar_one_or_none raised in add_topic_to_meeting on two topics holding
\* "Bud" and the exception was turned into the envelope; a retrieval tool
\* returned its payload, a record of success fields
C1_Witness ==
    /\ \E i \in DOMAIN log :
          /\ log[i].call.tool = "add_topic_to_meeting"
          /\ log[i].raised = <<MultipleResultsFound>>
          /\ log[i].result =
                [error |-> "Tool execution failed: " \o MultipleResultsFound]
    /\ \E j \in DOMAIN log :
          /\ log[j].call.tool \in {"get_all_tasks", "get_member_info",
                                   "get_current_datetime"}
          /\ log[j].raised = <<>>
          /\ ~IsError(log[j].result)
          /\ WellFormed(log[j].result)

\* C2: an operation adds a junction pair only if the pair is not present
\* already: no session holds the INSERT of the same pair twice (several names
\* of one list resolving to one person included), and no INSERT of a pair
\* meets the pair in the relation, which the store answers with an error.
C2_NoDuplicatePair ==
    /\ \A p \in Procs : \A i, j \in DOMAIN inv[p].loc.adds :
          i # j => inv[p].loc.adds[i] # inv[p].loc.adds[j]
    /\ \A i \in DOMAIN log : log[i].raised # <<IntegrityError>>

\* two invocations of assign_member_to_task, one right after the other and
\* with nothing else in flight, that resolved the same (task, person) pair,
\* absent before the first
AssignedTwice(a, b) ==
    /\ a.solo /\ b.solo
    /\ a.call.tool = "assign_member_to_task"
    /\ b.call.tool = "assign_member_to_task"
    /\ ResolvedPair(a) /\ ResolvedPair(b)
    /\ LinkPair(a.call, a.loc) = LinkPair(b.call, b.loc)
    /\ LinkPair(a.call, a.loc) \notin a.pre.task_members

\* C3: of two calls of assign_member_to_task in a row that resolve to the
\* same (task, person) pair, absent before the first, the first succeeds
\* and inserts the pair, the second returns the Conflict envelope
\* "<person> is already assigned to '<task>'" and inserts nothing, and the
\* relation then holds the pair (once: the first call's row).
C3_AssignTwice ==
    \A i \in DOMAIN log : \A j \in DOMAIN log :
        (j = i + 1 /\ AssignedTwice(log[i], log[j])) =>
            /\ IsSuccess(log[i].result)
            /\ log[i].wrote.links =
                  {<<"task_members", log[i].loc.ent.id, log[i].loc.m.id>>}
            /\ log[j].result =
                  [error |-> log[j].loc.m.name \o " is already assigned to '"
                             \o log[j].loc.ent.name \o "'"]
            /\ log[j].wrote = NoWrites
            /\ LinkPair(log[j].call, log[j].loc) \in log[j].post.task_members

\* task 1 was assigned to Sam Li by its id and the full name, then again by
\* a part of its name and the name with a trailing period
C3_Witness ==
    /\ Len(log) = 2
    /\ AssignedTwice(log[1], log[2])
    /\ log[1].call.args.task_identifier = "1"
    /\ log[2].call.args.task_identifier = "bug"
    /\ IsSuccess(log[1].result)
    /\ log[2].result = [error |-> "Sam Li is already assigned to 'Fix bug'"]

\* C4: the load of _ensure_cache (the read of the person table and the
\* filling of the two indexes) runs at most once, whatever invocations are
\* in flight together.
C4_LoadedAtMostOnce == cache_loads <= 1

\* the invocation wrote no row and no pair; run alone, it left the store as
\* it found it
InsertsNothing(e) == e.wrote = NoWrites /\ (e.solo => e.post = e.pre)

\* the positions of assigned_to whose name resolves to nobody against the
\* two indexes as they are
UnresolvedIn(c) ==
    {k \in DOMAIN Get(c.args, "assigned_to", <<>>) :
        fuzzy_match_member(c.args.assigned_to[k], member_cache,
                           member_first_name_index) = NoMember}

\* process p runs, in this step, the code of a tool that follows
\* "await self._ensure_cache()": the index was loaded when the tool was
\* invoked, or the load the tool awaited ends
PastEnsureCache(p) ==
    \/ inv[p].pc = "ec_close" /\ inv'[p].pc # "ec_close"
    \/ /\ inv[p].pc = "idle" /\ ncalls' = ncalls + 1 /\ cache_loaded
       /\ \A q \in Procs : q < p => inv[q].pc # "idle"

\* the call of that tool
CallPast(p) ==
    IF inv[p].pc = "ec_close" THEN inv[p].call
    ELSE IF inv'[p].pc # "idle" THEN inv'[p].call
    ELSE log'[Len(log')].call

\* process p resolves, in this step, the assignee names of a create_task,
\* one of which resolves to nobody
MeetsUnresolved(p) ==
    /\ PastEnsureCache(p)
    /\ CallPast(p).tool = "create_task"
    /\ "task_name" \in DOMAIN CallPast(p).args
    /\ UnresolvedIn(CallPast(p)) # {}

\* the entry of the invocation that returns in this step
Returned == log'[Len(log')]

\* the invocation of p returns in this step, having inserted nothing
EndsWithNothing(p) ==
    /\ inv'[p].pc = "idle"
    /\ db' = db /\ serial' = serial
    /\ Len(log') = Len(log) + 1
    /\ Returned.call = CallPast(p)
    /\ Returned.wrote = NoWrites /\ Returned.post = db

\* C5 as stated: a create_task with an unresolved name in assigned_to
\* inserts no task row and no task-person row and returns the error
\* envelope that names an unresolved name.
C5_AllOrNothing ==
    [][\A p \in Procs :
          MeetsUnresolved(p) =>
             /\ EndsWithNothing(p)
             /\ \E k \in UnresolvedIn(Returned.call) :
                   Returned.result =
                      MemberNotFound(Returned.call.args.assigned_to[k])]_vars

\* what create_task returns for an unresolved assignee: the deadline is
\* validated before the names are resolved
UnresolvedResult(c) ==
    IF HasDeadline(c) /\ task_deadline(c) = <<>>
    THEN [error |-> "Invalid deadline format. Please use YYYY-MM-DD"]
    ELSE MemberNotFound(c.args.assigned_to[Least(UnresolvedIn(c))])

\* C5, amended: a create_task with an unresolved name in assigned_to,
\* wherever the name is in the list and however many other names resolve,
\* inserts no task row and no task-person row and returns an error
\* envelope: the envelope names the first unresolved name when the deadline
\* is absent, empty, 'null' or a valid date, and is the deadline-format
\* error otherwise.
C5_AllOrNothingAfterDeadline ==
    [][\A p \in Procs :
          MeetsUnresolved(p) =>
             /\ EndsWithNothing(p)
             /\ Returned.result = UnresolvedResult(Returned.call)]_vars

\* create_task(assigned_to = ["Al Jo", "Nobody Xx", "Zed Qq"]) returned the
\* error naming "Nobody Xx", the first of its two unresolved names, and
\* create_task(assigned_to = ["Al Jo", "Al"]) the error naming "Al", which
\* resolves to nobody after the index was loaded twice; the store is as
\* before
C5_Witness ==
    /\ \E i \in DOMAIN log :
          /\ log[i].call.tool = "create_task"
          /\ Get(log[i].call.args, "assigned_to", <<>>) = <<"Al Jo", "Nobody Xx", "Zed Qq">>
          /\ fuzzy_match_member("Zed Qq", member_cache, member_first_name_index)
                = NoMember
          /\ log[i].result = [error |-> "Could not find a member matching 'Nobody Xx'"]
          /\ log[i].wrote = NoWrites
          /\ log[i].post = log[i].pre
    /\ \E j \in DOMAIN log :
          /\ log[j].call.tool = "create_task"
          /\ Get(log[j].call.args, "assigned_to", <<>>) = <<"Al Jo", "Al">>
          /\ cache_loads = 2
          /\ log[j].result = [error |-> "Could not find a member matching 'Al'"]
          /\ log[j].wrote = NoWrites
    /\ db \in Stores(InitialRows)

\* C6: no two projects and no two topics of the store share a name
\* case-insensitively, after any invocations, sequential or in flight
\* together.
C6_UniqueNames ==
    \A t \in {"project", "topic"} : \A r1, r2 \in db[t] :
        r1 # r2 => Lower(r1.name) # Lower(r2.name)

\* the name create_project or create_topic is given
NewName(c) ==
    IF c.tool = "create_project" THEN c.args.project_name ELSE c.args.topic_name

\* the Conflict cases, by the store the invocation started from: the new
\* name is taken, the link to add is present, the link to remove is absent
NameTaken(e) ==
    /\ e.call.tool \in {"create_project", "create_topic"}
    /\ MissingArgs(e.call) = {}
    /\ \E r \in e.pre[NewTable(e.call.tool)] : Lower(r.name) = Lower(NewName(e.call))

LinkPresent(e) ==
    /\ ResolvedPair(e)
    /\ e.call.tool # "remove_member_from_task"
    /\ LinkPair(e.call, e.loc) \in e.pre[LinkTable(e.call.tool)]

LinkAbsent(e) ==
    /\ ResolvedPair(e)
    /\ e.call.tool = "remove_member_from_task"
    /\ LinkPair(e.call, e.loc) \notin e.pre.task_members

\* the result is the Conflict envelope of the tool
ConflictEnvelope(e) ==
    \/ /\ e.call.tool \in {"create_project", "create_topic"}
       /\ MissingArgs(e.call) = {}
       /\ e.result = AlreadyExists(e.call)
    \/ /\ ResolvedPair(e)
       /\ e.call.tool # "remove_member_from_task"
       /\ e.result = AlreadyLinked(e.call, e.loc)
    \/ /\ ResolvedPair(e)
       /\ e.call.tool = "remove_member_from_task"
       /\ e.result = [error |-> e.loc.m.name \o " was not assigned to '"
                                \o e.loc.ent.name \o "'"]

\* C7: an invocation run alone in a Conflict case (the new project or topic
\* name is the name of a stored row, letter case apart; the link to add
\* exists; the link to remove does not) returns an error envelope, for a
\* link the Conflict envelope, and the rows and pairs of the store after it
\* equal those before it; and any invocation that returns a Conflict
\* envelope wrote nothing.
C7_ConflictUnchanged ==
    \A i \in DOMAIN log :
        /\ (log[i].solo /\ (NameTaken(log[i]) \/ LinkPresent(log[i])
                            \/ LinkAbsent(log[i]))) =>
              /\ IsError(log[i].result)
              /\ log[i].wrote = NoWrites
              /\ log[i].post = log[i].pre
        /\ (log[i].solo /\ (LinkPresent(log[i]) \/ LinkAbsent(log[i]))) =>
              ConflictEnvelope(log[i])
        /\ ConflictEnvelope(log[i]) => InsertsNothing(log[i])

(***************************************************************************)
(* Properties of the resolver, over the name asked and the answer.         *)
(***************************************************************************)
\* the rows of the person table whose name is in the index
Indexed == {i \in DOMAIN db.committee : db.committee[i].name # ""}

\* C8: resolving a full name present in the member index, exactly as it is
\* in the person table, returns the person indexed under it, by the
\* exact-match step, whatever the other names and whatever its characters.
C8_ExactName ==
    (/\ answer # NoAnswer
     /\ query.name = query.base
     /\ \E i \in Indexed : db.committee[i].name = query.name) =>
        /\ answer.step = "exact"
        /\ answer.member = member_cache[Lower(query.name)]

\* the query as a single word, case-folded
QueryWord == Lower(Strip(query.name))

\* the persons whose first name is the query
Holders == {i \in Indexed : Lower(FirstWord(db.committee[i].name)) = QueryWord}

\* a single-word query that is not a full name of the index
FirstNameQuery ==
    /\ answer # NoAnswer
    /\ query.name = query.base
    /\ QueryWord # ""
    /\ \A k \in 1..Len(QueryWord) : Char(QueryWord, k) \notin Whitespace
    /\ \A i \in Indexed : Lower(db.committee[i].name) # QueryWord

\* C9: for a single-word query that is not a full name of the index, the
\* resolver returns the person who alone has that first name, and when two
\* or more persons have it the first-name step does not decide.
C9_FirstName ==
    FirstNameQuery =>
        /\ Cardinality(Holders) = 1 =>
              \A i \in Holders : answer.member = member_dict(db.committee[i])
        /\ Cardinality(Holders) >= 2 => answer.step # "first"

\* C10: a name followed by a parenthetical commentary, and by trailing
\* characters among ",;.-" and whitespace, resolves to what the name alone
\* resolves to against the same index: the same person, or nobody.
C10_NoiseTolerance ==
    answer # NoAnswer =>
        answer.member =
           fuzzy_match_member(query.base, member_cache, member_first_name_index)

\* "Sam Li (a (b)) ,;- " resolved to Sam Li by the exact step, and so does
\* "Sam Li"
C10_Witness ==
    /\ query.base = "Sam Li"
    /\ query.name = "Sam Li (a (b)) ,;- "
    /\ answer.step = "exact"
    /\ answer.member.name = "Sam Li"

(***************************************************************************)
(* Properties of the router's dispatch and of the retrieval tools.         *)
(***************************************************************************)
\* C11: every invocation with a tool name outside the names _call_tool has
\* a branch for returned {error: 'Unknown tool: <tool_name>'}, whatever its
\* arguments and caller, raised nothing, ran no statement against the store
\* and wrote nothing.
C11_UnknownTool ==
    \A i \in DOMAIN log :
        log[i].call.tool \notin Tools =>
            /\ log[i].result = [error |-> "Unknown tool: " \o log[i].call.tool]
            /\ log[i].raised = <<>>
            /\ log[i].io = 0
            /\ log[i].wrote = NoWrites
            /\ log[i].post = log[i].pre

\* "get_my_task" was called with an argument and a caller, and
\* "delete_everything" with neither
C11_Witness ==
    /\ \E i \in DOMAIN log :
          /\ log[i].call.tool = "get_my_task"
          /\ log[i].call.user = 11
          /\ log[i].result = [error |-> "Unknown tool: get_my_task"]
    /\ \E j \in DOMAIN log :
          /\ log[j].call.args = <<>>
          /\ log[j].result = [error |-> "Unknown tool: delete_everything"]

\* the names of the catalog, and the catalog entry of a name
CatalogNames == {TOOL_DEFINITIONS[i].name : i \in DOMAIN TOOL_DEFINITIONS}

CatalogEntry(tool) ==
    TOOL_DEFINITIONS[CHOOSE i \in DOMAIN TOOL_DEFINITIONS :
                        TOOL_DEFINITIONS[i].name = tool]

\* the keys the catalog requires of the tool that the call does not give
MissingRequired(c) ==
    {CatalogEntry(c.tool).required[k] : k \in
        {j \in DOMAIN CatalogEntry(c.tool).required :
            CatalogEntry(c.tool).required[j] \notin DOMAIN c.args}}

\* the messages of the KeyError of a key among keys
KeyErrors(keys) == {<<"'" \o k \o "'">> : k \in keys}

AllKeys ==
    UNION {{TOOL_DEFINITIONS[i].required[k] : k \in DOMAIN TOOL_DEFINITIONS[i].required} :
              i \in DOMAIN TOOL_DEFINITIONS}

\* C12: the catalog and the branches of _call_tool name the same tools, no
\* name twice on either side, the keys a branch reads as args[key] are the
\* catalog's required keys of the tool, and so an invocation of a catalog
\* tool raises a KeyError exactly when a required key is missing, for one of
\* the missing keys.
C12_CatalogLockstep ==
    /\ CatalogNames = Tools
    /\ \A i, j \in DOMAIN Branches : i # j => Branches[i] # Branches[j]
    /\ \A i, j \in DOMAIN TOOL_DEFINITIONS :
          i # j => TOOL_DEFINITIONS[i].name # TOOL_DEFINITIONS[j].name
    /\ \A i \in DOMAIN TOOL_DEFINITIONS :
          {RequiredArgs(TOOL_DEFINITIONS[i].name)[k] :
              k \in DOMAIN RequiredArgs(TOOL_DEFINITIONS[i].name)}
          = {TOOL_DEFINITIONS[i].required[k] : k \in DOMAIN TOOL_DEFINITIONS[i].required}
    /\ \A i \in DOMAIN log :
          log[i].call.tool \in CatalogNames =>
              IF MissingRequired(log[i].call) = {}
              THEN log[i].raised \notin KeyErrors(AllKeys)
              ELSE log[i].raised \in KeyErrors(MissingRequired(log[i].call))

\* get_member_info without member_name raised the KeyError, and
\* update_task_status with its two required keys ran to its success
C12_Witness ==
    /\ \E i \in DOMAIN log :
          /\ log[i].call.tool = "get_member_info"
          /\ log[i].result = [error |-> "Tool execution failed: 'member_name'"]
    /\ \E j \in DOMAIN log :
          /\ log[j].call.tool = "update_task_status"
          /\ DOMAIN log[j].call.args = {"task_identifier", "new_status"}
          /\ IsSuccess(log[j].result)

\* the task status values a result payload holds
TaskStatuses(items) == {items[i].status : i \in DOMAIN items}

StatusesIn(e) ==
    IF IsError(e.result) THEN {}
    ELSE CASE e.call.tool \in {"get_my_tasks", "get_all_tasks", "get_member_info",
                               "get_meeting_info", "get_project_info"}
                 -> TaskStatuses(e.result.tasks)
           [] e.call.tool = "search_database" ->
                 IF "results" \in DOMAIN e.result /\ "tasks" \in DOMAIN e.result.results
                 THEN TaskStatuses(e.result.results.tasks) ELSE {}
           [] e.call.tool = "update_task_status" -> {e.result.old_status}
           [] OTHER -> {}

\* C13: every task status a result payload holds (the tasks of get_my_tasks,
\* get_all_tasks, get_member_info, get_meeting_info, get_project_info and
\* search_database, the old_status of update_task_status) is 'complete' or
\* 'incomplete', whatever the store holds for the task.
C13_StatusNormalized ==
    \A i \in DOMAIN log : StatusesIn(log[i]) \subseteq {"complete", "incomplete"}

\* the rows whose name holds the identifier the invocation was given, in
\* the store the invocation started from
NameMatches(e) ==
    {r \in e.pre[LookupTable(e.call.tool)] : ilike_contains(r.name, LookupArg(e.call))}

\* the result is an ambiguous-match envelope
IsAmbiguous(env) == IsError(env) /\ "matches" \in DOMAIN env

\* C14: the matches list of every ambiguous-match envelope holds at most 5
\* candidates; for an invocation run alone it holds as many candidates as
\* rows matched the name, up to 5.
C14_AmbiguityCap ==
    \A i \in DOMAIN log :
        IsAmbiguous(log[i].result) =>
            /\ Len(log[i].result.matches) <= 5
            /\ log[i].solo =>
                  Len(log[i].result.matches) =
                     (IF Cardinality(NameMatches(log[i])) < 5
                      THEN Cardinality(NameMatches(log[i])) ELSE 5)

\* update_task_status("Fix") met eleven tasks and returned the first five,
\* and get_meeting_info("o") met two meetings and returned the two
C14_Witness ==
    /\ \E i \in DOMAIN log :
          /\ log[i].call.tool = "update_task_status"
          /\ log[i].solo
          /\ Cardinality(NameMatches(log[i])) = 11
          /\ IsAmbiguous(log[i].result)
          /\ Len(log[i].result.matches) = 5
          /\ log[i].result.matches[5] = [id |-> 5, name |-> "Fix db"]
    /\ \E j \in DOMAIN log :
          /\ log[j].call.tool = "get_meeting_info"
          /\ IsAmbiguous(log[j].result)
          /\ Len(log[j].result.matches) = 2

\* C15: every element of the matches list of every ambiguous-match envelope
\* is an {id, name} record.
C15_MatchRecords ==
    \A i \in DOMAIN log :
        IsAmbiguous(log[i].result) =>
            \A k \in DOMAIN log[i].result.matches :
                DOMAIN log[i].result.matches[k] = {"id", "name"}

\* the tools that resolve a task, meeting, project or topic identifier
LookupTools ==
    {"assign_member_to_task", "remove_member_from_task", "update_task_status",
     "add_member_to_project", "get_project_info", "add_topic_to_meeting",
     "get_meeting_info", "get_topic_info"}

\* the invocation of log entry e ran alone and went as far as resolving its
\* identifier: its arguments are there and well-formed and, where the member
\* is matched first, the member was matched
Looked(e) ==
    /\ e.solo
    /\ e.call.tool \in LookupTools
    /\ MissingRequired(e.call) = {}
    /\ e.call.nonstr = {}
    /\ e.call.tool \in {"assign_member_to_task", "remove_member_from_task",
                        "add_member_to_project"} => e.loc.m # NoMember
    /\ e.call.tool = "update_task_status" =>
          e.call.args.new_status \in {"complete", "incomplete"}

\* the rows whose primary key is the number the identifier spells
KeyMatches(e) ==
    IF int(LookupArg(e.call)) = <<>> THEN {}
    ELSE {r \in e.pre[LookupTable(e.call.tool)] : r.id = int(LookupArg(e.call))[1]}

\* the topics whose name holds the topic_name of add_topic_to_meeting
TopicMatches(e) == {r \in e.pre.topic : ilike_contains(r.name, e.call.args.topic_name)}

\* C16: every lookup by name follows one policy: no row matching the name
\* gives the not-found envelope, one row is the row used, two or more give
\* the ambiguous-match envelope and change nothing; the topic lookup of
\* add_topic_to_meeting treats one and several matches the same way.
C16_ZeroOneMany ==
    \A i \in DOMAIN log :
        /\ (Looked(log[i]) /\ KeyMatches(log[i]) = {}) =>
              /\ NameMatches(log[i]) = {} => log[i].result = NotFound(log[i].call)
              /\ Cardinality(NameMatches(log[i])) = 1 =>
                    log[i].loc.ent \in NameMatches(log[i])
              /\ Cardinality(NameMatches(log[i])) > 1 =>
                    IsAmbiguous(log[i].result) /\ InsertsNothing(log[i])
        /\ (Looked(log[i]) /\ log[i].call.tool = "add_topic_to_meeting"
               /\ log[i].loc.ent # NoRow) =>
              /\ Cardinality(TopicMatches(log[i])) = 1 =>
                    log[i].loc.top \in TopicMatches(log[i])
              /\ Cardinality(TopicMatches(log[i])) > 1 =>
                    IsAmbiguous(log[i].result) /\ InsertsNothing(log[i])

\* C17: an identifier that spells the primary key of a stored task, meeting,
\* project or topic resolves to that row, whatever names hold its digits.
C17_IdAuthoritative ==
    \A i \in DOMAIN log :
        (Looked(log[i]) /\ KeyMatches(log[i]) # {}) =>
            log[i].loc.ent \in KeyMatches(log[i])

\* the call carries input the tool must reject: a new_status that is neither
\* complete nor incomplete, a deadline that is given and is no date
Malformed(c) ==
    \/ /\ c.tool = "update_task_status"
       /\ MissingRequired(c) = {}
       /\ c.args.new_status \notin {"complete", "incomplete"}
    \/ /\ c.tool = "create_task"
       /\ MissingRequired(c) = {}
       /\ HasDeadline(c)
       /\ task_deadline(c) = <<>>

\* C18: an invocation with malformed input returns an error envelope having
\* run no statement against the store, read or write, the first invocation
\* of the process included.
C18_ValidationFirst ==
    \A i \in DOMAIN log :
        Malformed(log[i].call) =>
            /\ IsError(log[i].result)
            /\ log[i].io = 0
            /\ log[i].wrote = NoWrites

\* the call needs to know who is calling
NeedsIdentity(c) ==
    \/ c.tool \in IdentityTools
    \/ /\ c.tool = "create_task"
       /\ MissingRequired(c) = {}
       /\ Get(c.args, "assign_to_current_user", FALSE)

\* the caller identity of log entry e is absent or is no stored person's
NoIdentity(e) ==
    \/ e.call.user = 0
    \/ \A j \in DOMAIN e.pre.committee :
          e.pre.committee[j].discord_id # e.call.user

\* C19: an operation that needs the caller's identity, invoked with an
\* identity that is absent or matches no person, returns an error envelope,
\* raises nothing and changes nothing stored.
C19_IdentityGraceful ==
    \A i \in DOMAIN log :
        (NeedsIdentity(log[i].call) /\ NoIdentity(log[i])) =>
            /\ IsError(log[i].result)
            /\ log[i].raised = <<>>
            /\ InsertsNothing(log[i])

(***************************************************************************)
(* Properties of the member index while the person table changes.          *)
(***************************************************************************)
\* the names asked of the index: those of the persons stored at first, the
\* name of the person added, the old and the new name of the person
\* renamed, and first names
ProbeNames == {"Sam Li", "sam", "Al Jo", "al", "Alan Jo", "alan", "Kim Wu", "kim"}

\* C20: once the member index is loaded, no step changes what any name
\* resolves to, whatever persons are added to or renamed in the store.
C20_Staleness ==
    [][cache_loaded =>
          \A n \in ProbeNames :
              fuzzy_match_member(n, member_cache', member_first_name_index')
                 = fuzzy_match_member(n, member_cache, member_first_name_index)]_vars

(***************************************************************************)
(* Properties of the store across the steps of the tools.                  *)
(***************************************************************************)
JunctionTables ==
    {"task_members", "project_members", "meeting_topics", "meeting_members",
     "meeting_tasks", "meeting_projects", "project_tasks"}


\* process p commits a remove_member_from_task in this step
Unassigns(p) ==
    /\ inv[p].call.tool = "remove_member_from_task"
    /\ inv[p].pc = "commit"
    /\ inv'[p].pc = "close"

\* C21: no step loses a person, task, meeting, project or topic row, and
\* the only junction rows a step removes are one task-person pair, removed
\* by the commit of a remove_member_from_task whose arguments resolved to
\* that pair.
C21_NoHardDelete ==
    [][/\ \A t \in EntityTables : Ids(db[t]) \subseteq Ids(db'[t])
       /\ Ids(Members(db)) \subseteq Ids(Members(db'))
       /\ \A j \in JunctionTables \ {"task_members"} : db[j] \subseteq db'[j]
       /\ \/ db.task_members \subseteq db'.task_members
          \/ \E p \in Procs :
                /\ Unassigns(p)
                /\ db.task_members \ db'.task_members
                      = {<<inv[p].loc.ent.id, inv[p].loc.m.id>>}]_vars

\* remove_member_from_task("1", "Sam Li") has removed the pair (1, 1) and
\* nothing else, while tasks and links were being created
C21_Witness ==
    /\ \E i \in DOMAIN log :
          /\ log[i].call.tool = "remove_member_from_task"
          /\ IsSuccess(log[i].result)
          /\ log[i].wrote.unlinks = {<<"task_members", 1, 1>>}
          /\ <<1, 1>> \in log[i].pre.task_members
          /\ <<1, 1>> \notin log[i].post.task_members
          /\ <<4, 1>> \in log[i].post.task_members
    /\ \E j \in DOMAIN log : log[j].wrote.rows # {} \/ log[j].wrote.links # {}

\* C22: an invocation of a tool of the catalog whose arguments lack a
\* required key ends in the error envelope of the KeyError of a missing
\* key, no value standing in for it, and has read and written nothing.
C22_MissingArgument ==
    \A i \in DOMAIN log :
        (log[i].call.tool \in Tools /\ MissingRequired(log[i].call) # {}) =>
            /\ log[i].raised \in KeyErrors(MissingRequired(log[i].call))
            /\ log[i].result =
                  [error |-> "Tool execution failed: " \o log[i].raised[1]]
            /\ log[i].io = 0
            /\ log[i].wrote = NoWrites
            /\ log[i].post = log[i].pre

\* create_task without task_name and update_task_status without new_status
\* have both ended in the KeyError envelope, the store as it was at first
C22_Witness ==
    /\ \E i \in DOMAIN log :
          /\ log[i].call.tool = "create_task"
          /\ "task_name" \notin DOMAIN log[i].call.args
          /\ log[i].result = [error |-> "Tool execution failed: 'task_name'"]
    /\ \E j \in DOMAIN log :
          /\ log[j].call.tool = "update_task_status"
          /\ log[j].result = [error |-> "Tool execution failed: 'new_status'"]
    /\ db = QueryDb

(***************************************************************************)
(* Properties of the payloads of get_all_tasks and search_database.        *)
(***************************************************************************)
\* the stored task with primary key id
TaskOf(d, id) == CHOOSE t \in d.task : t.id = id

\* date a is not after date b
NotAfter(a, b) ==
    \/ a.y < b.y
    \/ a.y = b.y /\ a.m < b.m
    \/ a.y = b.y /\ a.m = b.m /\ a.d <= b.d

\* the tasks a status filter asks for
Asked(filter, tasks) ==
    CASE filter = "incomplete" ->
            {t \in tasks : t.status = <<>> \/ t.status = <<"incomplete">>}
      [] filter = "complete" -> {t \in tasks : t.status = <<"complete">>}
      [] filter = "all" -> tasks

\* log entry e is a get_all_tasks run alone with one of the three filters
ListsTasks(e) ==
    /\ e.call.tool = "get_all_tasks"
    /\ e.solo
    /\ Get(e.call.args, "status_filter", "all") \in {"incomplete", "complete", "all"}

\* C23: get_all_tasks lists, each once, exactly the tasks its filter asks
\* for (incomplete: stored as incomplete or with no status; complete: stored
\* as complete; all, the default: every task), by deadline ascending, every
\* task without a deadline after every task with one.
C23_TaskListing ==
    \A i \in DOMAIN log :
        ListsTasks(log[i]) =>
            LET items == log[i].result.tasks
                d     == log[i].pre
            IN  /\ {items[k].task_id : k \in DOMAIN items}
                      = Ids(Asked(Get(log[i].call.args, "status_filter", "all"), d.task))
                /\ \A k, l \in DOMAIN items :
                      k < l =>
                         /\ items[k].task_id # items[l].task_id
                         /\ TaskOf(d, items[k].task_id).deadline = <<>> =>
                               TaskOf(d, items[l].task_id).deadline = <<>>
                         /\ (/\ TaskOf(d, items[k].task_id).deadline # <<>>
                             /\ TaskOf(d, items[l].task_id).deadline # <<>>) =>
                               NotAfter(TaskOf(d, items[k].task_id).deadline[1],
                                        TaskOf(d, items[l].task_id).deadline[1])

\* the three filters have been used: every task listed with "Fix api"
\* (2024-01-15) first, "Fix ui" (2024-02-01) second and "Fix bug"
\* (2024-03-01) third, the incomplete tasks listed as "Fix api", "Fix bug",
\* "Fix doc", the complete, none of them dated, as "Fix ci" and "Fix w" to
\* "Fix z", the order of their places
C23_Witness ==
    /\ \E i \in DOMAIN log :
          /\ ListsTasks(log[i])
          /\ Get(log[i].call.args, "status_filter", "all") = "all"
          /\ log[i].pre = QueryDb
          /\ Len(log[i].result.tasks) = 11
          /\ log[i].result.tasks[1].task_id = 6
          /\ log[i].result.tasks[2].task_id = 4
          /\ log[i].result.tasks[3].task_id = 1
    /\ \E j \in DOMAIN log :
          /\ ListsTasks(log[j])
          /\ log[j].pre = QueryDb
          /\ \/ /\ log[j].call.args = [status_filter |-> "incomplete"]
                /\ [k \in DOMAIN log[j].result.tasks |-> log[j].result.tasks[k].task_id]
                      = <<6, 1, 2>>
             \/ /\ log[j].call.args = [status_filter |-> "complete"]
                /\ [k \in DOMAIN log[j].result.tasks |-> log[j].result.tasks[k].task_id]
                      = <<3, 8, 9, 10, 11>>

\* the five entity types search_database knows and the rows of each
Kinds == {"members", "meetings", "projects", "tasks", "topics"}

\* the rows of a type one of whose searched columns holds the search query
\* of log entry e
Hits(e, kind) ==
    {r \in TableOf(e.pre, kind) : SearchHit(r, kind, e.call.args.search_query)}

\* the types search_in selects that have a hit
HitKinds(e) ==
    {k \in Kinds : /\ Get(e.call.args, "search_in", "all") \in {k, "all"}
                   /\ Hits(e, k) # {}}

\* log entry e is a search_database run alone
Searches(e) ==
    e.call.tool = "search_database" /\ e.solo /\ MissingRequired(e.call) = {}

\* C24: the results record of search_database has a key for a type exactly
\* when search_in selects the type and the type has a hit; each list holds
\* the hits of its type up to 10; with no hit in any selected type the
\* envelope is the "No results found" message alone.
C24_SearchCategories ==
    \A i \in DOMAIN log :
        Searches(log[i]) =>
            IF HitKinds(log[i]) = {}
            THEN log[i].result =
                    [message |-> "No results found for '"
                                 \o log[i].call.args.search_query \o "'"]
            ELSE /\ DOMAIN log[i].result = {"message", "results"}
                 /\ DOMAIN log[i].result.results = HitKinds(log[i])
                 /\ \A k \in HitKinds(log[i]) :
                       /\ Len(log[i].result.results[k]) <= 10
                       /\ Len(log[i].result.results[k]) =
                             (IF Cardinality(Hits(log[i], k)) < 10
                              THEN Cardinality(Hits(log[i], k)) ELSE 10)

\* "fix" in every type found eleven tasks and listed ten, found a member
\* by the role, a meeting by the summary and a topic by the description,
\* and no project; "E" in projects listed the three projects and not the
\* meeting "Retro"; "qq" found nothing
C24_Witness ==
    /\ \E i \in DOMAIN log :
          /\ Searches(log[i])
          /\ log[i].call.args = [search_query |-> "fix"]
          /\ Cardinality(Hits(log[i], "tasks")) = 11
          /\ DOMAIN log[i].result.results = {"members", "meetings", "tasks", "topics"}
          /\ Len(log[i].result.results.tasks) = 10
          /\ log[i].result.results.members = <<[name |-> "Sam Li"]>>
    /\ \E j \in DOMAIN log :
          /\ Searches(log[j])
          /\ \/ /\ log[j].call.args.search_query = "E"
                /\ Hits(log[j], "meetings") # {}
                /\ DOMAIN log[j].result.results = {"projects"}
                /\ Len(log[j].result.results.projects) = 3
             \/ log[j].result = [message |-> "No results found for 'qq'"]

(***************************************************************************)
(* Properties of invocations in flight together.                           *)
(***************************************************************************)
\* process q ends, in this step, an assign_member_to_task that has passed
\* its existence check and whose pair another invocation has inserted since
LateAssign(q) ==
    /\ inv[q].call.tool = "assign_member_to_task"
    /\ inv[q].pc = "commit"
    /\ inv'[q].pc = "close"
    /\ LinkPair(inv[q].call, inv[q].loc) \in db.task_members

\* C25: of two assign_member_to_task invocations in flight together for
\* the same pair, the one that commits after the other has inserted the
\* pair inserts nothing and does not report success: the pair is in the
\* relation once and at most one of the two succeeds.
C25_ConcurrentAssign ==
    [][\A q \in Procs :
          LateAssign(q) =>
             /\ db' = db
             /\ ~IsSuccess(execute(inv'[q].ret[1].out))
             /\ inv'[q].ret[1].wrote = NoWrites]_vars

\* the two invocations for (task 1, Sam Li) overlapped, both passed the
\* existence check, one succeeded and the other ended in the error of the
\* store
C25_Witness ==
    /\ Len(log) = 2
    /\ \A i \in {1, 2} :
          /\ log[i].call.tool = "assign_member_to_task"
          /\ ~log[i].solo
          /\ LinkPair(log[i].call, log[i].loc) = <<1, 1>>
          /\ <<1, 1>> \notin log[i].pre.task_members
    /\ IsSuccess(log[1].result)
    /\ log[2].raised = <<IntegrityError>>
    /\ log[2].wrote = NoWrites
    /\ <<1, 1>> \in db.task_members

\* the persons of the store whose first name, case-folded, is w
Bearers(w) == {m \in Members(db) : m.name # "" /\ Lower(FirstWord(m.name)) = w}

\* the first names borne by exactly one person
OwnFirstNames ==
    {w \in {Lower(FirstWord(m.name)) : m \in {x \in Members(db) : x.name # ""}} :
        Cardinality(Bearers(w)) = 1}

\* C26: however the first invocations interleave, once the index is marked
\* loaded the first-name index lists each person once under a first name,
\* and a first name borne by exactly one person resolves to that person.
C26_ConcurrentFirstUse ==
    cache_loaded =>
        /\ \A w \in DOMAIN member_first_name_index :
              \A i, j \in DOMAIN member_first_name_index[w] :
                  i # j => member_first_name_index[w][i].id
                              # member_first_name_index[w][j].id
        /\ \A w \in OwnFirstNames :
              fuzzy_match_member(w, member_cache, member_first_name_index)
                 \in Bearers(w)

(***************************************************************************)
(* Properties of add_topic_to_meeting and of the project lookups.          *)
(***************************************************************************)
\* log entry e is an add_topic_to_meeting run alone that resolved its meeting
LinksTopic(e) ==
    /\ e.call.tool = "add_topic_to_meeting"
    /\ e.solo
    /\ MissingRequired(e.call) = {}
    /\ e.loc.ent # NoRow

\* C27: add_topic_to_meeting, its meeting resolved, creates a topic row
\* exactly when no stored topic name holds topic_name, inserts the
\* meeting-topic pair only when the pair is absent, and ends in a success
\* or a structured error envelope, never in a raised exception.
C27_TopicLinking ==
    \A i \in DOMAIN log :
        LinksTopic(log[i]) =>
            /\ log[i].raised = <<>>
            /\ (log[i].wrote.rows # {}) <=> (TopicMatches(log[i]) = {})
            /\ \A x \in log[i].wrote.links :
                  <<x[2], x[3]>> \notin log[i].pre.meeting_topics
            /\ IsSuccess(log[i].result) \/ IsError(log[i].result)

\* the rows among the name matches whose name is the identifier, case-folded
ExactMatches(e) ==
    {r \in NameMatches(e) : Lower(r.name) = Lower(LookupArg(e.call))}

\* C28: a project lookup by name (get_project_info, add_member_to_project)
\* that meets several projects uses the one whose name equals the given
\* name case-insensitively, if there is exactly one, and returns the
\* ambiguous-match envelope otherwise.
C28_ProjectExactRetry ==
    \A i \in DOMAIN log :
        (/\ log[i].call.tool \in {"get_project_info", "add_member_to_project"}
         /\ Looked(log[i])
         /\ Cardinality(NameMatches(log[i])) > 1) =>
            IF Cardinality(ExactMatches(log[i])) = 1
            THEN log[i].loc.ent \in ExactMatches(log[i])
            ELSE IsAmbiguous(log[i].result)

(***************************************************************************)
(* Properties of the transactions of create_task and create_project.       *)
(***************************************************************************)
\* process p ends a create_task or create_project in this step
EndsCreate(p) ==
    /\ inv[p].call.tool \in {"create_task", "create_project"}
    /\ inv[p].pc \notin {"idle", "close"}
    /\ \/ inv'[p].pc = "idle"
       \/ inv'[p].pc = "close" /\ inv'[p].ret[1].out.kind # "goto"

\* the envelope of the invocation of p that ends in this step, which it
\* returns at once or after the close of its session
Ending(p) ==
    IF inv'[p].pc = "close" THEN execute(inv'[p].ret[1].out)
    ELSE log'[Len(log')].result

\* C29: a task or project row appears in the store in the step in which
\* the create_task or create_project that made it commits and reports
\* success, together with the links to every one of its assignees or team
\* members and no other; a create_task or create_project that ends in an
\* error leaves the store as it was.
C29_OneTransaction ==
    [][/\ \A t \in {"task", "project"} :
             \A r \in db'[t] :
                r.id \notin Ids(db[t]) =>
                   \E p \in Procs :
                      /\ EndsCreate(p)
                      /\ NewTable(inv[p].call.tool) = t
                      /\ inv[p].pc = "commit"
                      /\ IsSuccess(Ending(p))
                      /\ RightOf(db'[LinkTable(inv[p].call.tool)], r.id)
                            = {inv[p].loc.ms[i].id : i \in DOMAIN inv[p].loc.ms}
                      /\ db' = [db EXCEPT
                                  ![t] = @ \cup {r},
                                  ![LinkTable(inv[p].call.tool)] =
                                      @ \cup {<<r.id, inv[p].loc.ms[i].id>> :
                                                 i \in DOMAIN inv[p].loc.ms},
                                  !.heap[t] =
                                      [i \in DOMAIN @ \cup {r.id} |->
                                          IF i = r.id THEN inv[p].loc.place
                                          ELSE @[i]]]
       /\ \A p \in Procs :
             (EndsCreate(p) /\ IsError(Ending(p))) => db' = db]_vars

\* create_task for Sam Li and Al Jo has committed task 12 with its two
\* links, and a create_task of a caller who is no stored person has ended
\* in its error and left no task
C29_Witness ==
    /\ \E i \in DOMAIN log :
          /\ log[i].call.tool = "create_task"
          /\ IsSuccess(log[i].result)
          /\ log[i].wrote.rows = {<<"task", log[i].result.task_id>>}
          /\ Cardinality(log[i].wrote.links) = 2
          /\ RightOf(db.task_members, log[i].result.task_id) = {1, 3}
    /\ \E j \in DOMAIN log :
          /\ log[j].call.tool = "create_task"
          /\ log[j].result = NotLinked(log[j].call)
          /\ log[j].wrote = NoWrites
          /\ log[j].post.task = log[j].pre.task

(***************************************************************************)
(* Properties of the retrieval tools as readers of the store.              *)
(***************************************************************************)
RetrievalTools ==
    {"get_my_tasks", "get_my_identity", "get_all_tasks", "get_member_info",
     "get_meeting_info", "get_meetings_for_member", "get_missed_meetings",
     "get_project_info", "get_all_projects", "get_all_members", "get_topic_info",
     "search_database"}

\* C30: no step of an invocation of a retrieval tool changes the store, an
\* invocation of a retrieval tool that has returned has written nothing,
\* and an invocation of get_current_datetime has returned the clock reading
\* without a statement run against the store.
C30_QueriesReadOnly ==
    [][/\ \A p \in Procs :
             (inv[p].call.tool \in RetrievalTools /\ inv'[p] # inv[p]) => db' = db
       /\ \A i \in DOMAIN log' :
             /\ log'[i].call.tool \in RetrievalTools =>
                   /\ log'[i].wrote = NoWrites
                   /\ log'[i].solo => log'[i].post = log'[i].pre
             /\ log'[i].call.tool = "get_current_datetime" =>
                   /\ log'[i].io = 0
                   /\ log'[i].wrote = NoWrites
                   /\ log'[i].result = Clock]_vars

\* the retrieval tools that read the most have returned their payloads
\* (get_all_tasks, get_missed_meetings or search_database, and
\* get_current_datetime in a fresh process) and the store is as it was
C30_Witness ==
    /\ db = QueryDb
    /\ \E i \in DOMAIN log :
          /\ log[i].call.tool \in {"get_all_tasks", "get_missed_meetings",
                                   "search_database", "get_member_info"}
          /\ ~IsError(log[i].result)
          /\ log[i].io > 0
    /\ \E j \in DOMAIN log :
          /\ log[j].call.tool = "get_current_datetime"
          /\ log[j].result = Clock
          /\ log[j].io = 0
====
